---- MODULE Spec2Model ----
(***************************************************************************)
(* FileFinder: the file-discovery and guess-comparison core of             *)
(* src/gameLogic.js.                                                       *)
(*                                                                         *)
(* SpecCompare  calculateDistance and compareGuesses applied to paths.     *)
(*              A path is a sequence of one-character strings, so that     *)
(*              path.dirname, path.basename, path.normalize, toLowerCase   *)
(*              and charCodeAt are computed character by character (POSIX  *)
(*              flavour of Node's path module, path.sep = "/").            *)
(* SpecScan     one top-level scanDirectory call on a directory tree, one  *)
(*              step per await, loop iteration and return.  A path of the  *)
(*              file system is the sequence of its segment names.          *)
(* SpecCommon   scanCommonDirectories over the six well-known directories, *)
(*              with the scanDirectory calls it awaits.                    *)
(*                                                                         *)
(* The progress callback is taken never to throw; scanDirectory then never *)
(* rejects, and the catch of scanCommonDirectories (lines 214-220) is      *)
(* never entered.                                                          *)
(***************************************************************************)
EXTENDS Integers, Sequences, FiniteSets, TLC

VARIABLES
  newGuessPath,       \* compareGuesses / calculateDistance argument
  previousGuessPath,  \* compareGuesses argument, NoGuess when absent (null)
  targetPath,         \* compareGuesses / calculateDistance argument
  comparison,         \* value returned by compareGuesses, Pending before the call
  distanceInfo,       \* value returned by calculateDistance, Pending before the call
  fsKind,             \* the file system: entry path |-> "dir", "file", "other" or "none"
  unreadable,         \* directories whose listing (fs.promises.readdir) fails
  scanRoot,           \* dirPath of the top-level scanDirectory call
  maxDepth,           \* maxDepth of the scanDirectory call
  maxFiles,           \* maxFiles of the scanDirectory call
  stack,              \* the chain of suspended scanDirectory calls, innermost last
  fileList,           \* the accumulator shared by the whole recursion
  scanStatus,         \* "idle", "running", "returned" or "threw"
  listed,             \* history: every readdir call, with the accumulator at that time
  progress,           \* history: every progressCallback call
  existingDirs,       \* scanCommonDirectories: the roots that exist
  rootIndex,          \* scanCommonDirectories: loop variable i
  allFiles,           \* scanCommonDirectories: the aggregated list
  commonPc,           \* scanCommonDirectories: "idle", "start", "loop", "scanning", "finish", "done"
  outcome,            \* scanCommonDirectories: "none", "returned" or the error thrown
  depthPath,          \* getDirectoryDepth argument
  depthResult,        \* value returned by getDirectoryDepth, NoDepth before the call
  candidates,         \* selectTargetFile argument
  randomValue,        \* Math.random() is randomValue / RandomSteps
  selected,           \* outcome of selectTargetFile, NotSelected before the call
  mainFileList,       \* main process: fileList (line 259)
  targetFile,         \* main process: targetFile (line 260), null before a game
  handler,            \* main process: the request whose handler awaits scanCommonDirectories
  toMain,             \* ipcRenderer.invoke requests not yet handled, in order
  fromMain,           \* replies and webContents.send messages not yet received, in order
  gameState,          \* renderer.js: gameState
  fileInput,          \* renderer.js: fileInput.value
  ui                  \* renderer.js: what the window shows and which controls are disabled

cmpVars == <<newGuessPath, previousGuessPath, targetPath, comparison, distanceInfo>>

fsVars == <<fsKind, unreadable>>

scanVars == <<scanRoot, maxDepth, maxFiles, stack, fileList, scanStatus, listed>>

commonVars == <<existingDirs, rootIndex, allFiles, commonPc, outcome>>

pureVars == <<depthPath, depthResult, candidates, randomValue, selected>>

mainVars == <<mainFileList, targetFile, handler>>

ipcVars == <<toMain, fromMain>>

rendererVars == <<gameState, fileInput, ui>>

gameVars == <<mainVars, ipcVars, rendererVars>>

vars == <<cmpVars, fsVars, scanVars, progress, commonVars, pureVars, gameVars>>

-----------------------------------------------------------------------------
(* Bounds of the model *)

\* longest chain of directories in a generated guess/target path
MaxDirs == 2

\* largest maxDepth argument given to a direct scanDirectory call
MaxDepthArg == 3

\* largest maxFiles argument given to a direct scanDirectory call
MaxFilesArg == 3

\* most well-known directories that exist at once
MaxRoots == 3

\* the global cap of scanCommonDirectories: 20000 in the source (line 192),
\* scaled down so that a handful of files reaches it
totalMaxFiles == 3

\* longest path given to getDirectoryDepth, in characters
MaxPathLen == 4

\* longest candidate list given to selectTargetFile
MaxCandidates == 3

\* largest maxFiles argument of a scan of the tree with seven files
MaxBatchFiles == 7

\* Math.random() takes the values 0, 1/RandomSteps, ..., (RandomSteps-1)/RandomSteps
RandomSteps == 4

-----------------------------------------------------------------------------
(* Generic helpers *)

Max(a, b) == IF a >= b THEN a ELSE b

Abs(n) == IF n < 0 THEN -n ELSE n

SetMax(S) == CHOOSE x \in S : \A y \in S : y <= x

SetMin(S) == CHOOSE x \in S : \A y \in S : x <= y

Last(s) == s[Len(s)]

\* null: not a path, since "null" is no character of the alphabet
NoGuess == <<"null">>

Pending == "pending"

NoDistance == [method |-> "pending", distance |-> 0]

NoDepth == -1

\* undefined: what indexing an array out of its range gives
Undefined == <<"undefined">>

NotSelected == [error |-> "pending", value |-> Undefined]

\* JavaScript's null
null == NoGuess

\* gameState.guessesRemaining at the start of a game
MaxGuesses == 10

\* ipcRenderer.invoke(channel, guessPath, previousGuessPath), made by function fn
Request(channel, fn, guessPath, previousGuess) ==
  [channel |-> channel, fn |-> fn, guessPath |-> guessPath,
   previousGuessPath |-> previousGuess]

\* no handler is awaiting scanCommonDirectories
NoHandler == Request("none", "none", <<>>, null)

\* renderer.js lines 4-10
InitialGameState ==
  [guessesRemaining |-> MaxGuesses, previousGuess |-> null, guesses |-> <<>>,
   gameActive |-> FALSE, targetFile |-> null]

\* the window before DOMContentLoaded: nothing shown, nothing disabled
InitialUi ==
  [loaded |-> FALSE, loading |-> FALSE, win |-> FALSE, lose |-> FALSE,
   targetReveal |-> null, guessBtnDisabled |-> FALSE, fileInputDisabled |-> FALSE,
   browseBtnDisabled |-> FALSE, alert |-> "none", feedback |-> ""]

\* no window and no handler invocation
GameIdle ==
  /\ mainFileList = <<>>
  /\ targetFile = null
  /\ handler = NoHandler
  /\ toMain = <<>>
  /\ fromMain = <<>>
  /\ gameState = InitialGameState
  /\ fileInput = <<>>
  /\ ui = InitialUi

\* no getDirectoryDepth or selectTargetFile call is under way
PureIdle ==
  /\ depthPath = <<>>
  /\ depthResult = NoDepth
  /\ candidates = <<>>
  /\ randomValue = 0
  /\ selected = NotSelected

-----------------------------------------------------------------------------
(* Characters and strings *)

Sep == "/"

\* String.prototype.charCodeAt for the characters of the model's alphabet
CharCode(c) ==
  CASE c = "/" -> 47
    [] c = "." -> 46
    [] c = "D" -> 68
    [] c = "M" -> 77
    [] c = "a" -> 97
    [] c = "b" -> 98
    [] c = "d" -> 100
    [] c = "k" -> 107
    [] c = "m" -> 109
    [] c = "s" -> 115
    [] c = "x" -> 120
    [] c = "y" -> 121

LowerChar(c) ==
  CASE c = "D" -> "d"
    [] c = "M" -> "m"
    [] c = "P" -> "p"
    [] c = "V" -> "v"
    [] c = "H" -> "h"
    [] c = "E" -> "e"
    [] c = "A" -> "a"
    [] OTHER -> c

\* String.prototype.toLowerCase
toLowerCase(s) == [i \in 1..Len(s) |-> LowerChar(s[i])]

\* name.charCodeAt(0) || 0 : NaN (empty string) becomes 0
FirstCharCode(name) == IF Len(name) = 0 THEN 0 ELSE CharCode(name[1])

-----------------------------------------------------------------------------
(* Node's path module, POSIX *)

\* String.prototype.split(path.sep)
RECURSIVE Split(_)
Split(s) ==
  LET idx == {i \in 1..Len(s) : s[i] = Sep}
  IN IF idx = {} THEN <<s>>
     ELSE LET i == SetMin(idx)
          IN <<SubSeq(s, 1, i - 1)>> \o Split(SubSeq(s, i + 1, Len(s)))

RECURSIVE Join(_)
Join(segs) ==
  IF Len(segs) = 0 THEN <<>>
  ELSE IF Len(segs) = 1 THEN segs[1]
  ELSE segs[1] \o <<Sep>> \o Join(Tail(segs))

\* normalizeString: drops empty and "." segments, resolves ".."
RECURSIVE NormSegs(_, _, _)
NormSegs(segs, acc, allowAboveRoot) ==
  IF Len(segs) = 0 THEN acc
  ELSE LET h == Head(segs)
           rest == Tail(segs)
       IN IF h = <<>> \/ h = <<".">>
            THEN NormSegs(rest, acc, allowAboveRoot)
          ELSE IF h = <<".", ".">>
            THEN IF Len(acc) > 0 /\ Last(acc) # <<".", ".">>
                   THEN NormSegs(rest, SubSeq(acc, 1, Len(acc) - 1), allowAboveRoot)
                 ELSE IF allowAboveRoot
                   THEN NormSegs(rest, Append(acc, h), allowAboveRoot)
                 ELSE NormSegs(rest, acc, allowAboveRoot)
          ELSE NormSegs(rest, Append(acc, h), allowAboveRoot)

\* path.normalize
normalize(p) ==
  IF Len(p) = 0 THEN <<".">>
  ELSE LET isAbsolute == p[1] = Sep
           trailingSeparator == p[Len(p)] = Sep
           body == Join(NormSegs(Split(p), <<>>, ~isAbsolute))
       IN IF Len(body) = 0
            THEN IF isAbsolute THEN <<Sep>>
                 ELSE IF trailingSeparator THEN <<".", Sep>> ELSE <<".">>
          ELSE (IF isAbsolute THEN <<Sep>> ELSE <<>>)
               \o body
               \o (IF trailingSeparator THEN <<Sep>> ELSE <<>>)

\* path.dirname: everything before the last separator that is followed by a
\* non-separator character; the separator at index 0 is never that separator
dirname(p) ==
  IF Len(p) = 0 THEN <<".">>
  ELSE LET hasRoot == p[1] = Sep
           ends == {i \in 2..Len(p) :
                      p[i] = Sep /\ \E j \in (i + 1)..Len(p) : p[j] # Sep}
       IN IF ends = {} THEN (IF hasRoot THEN <<Sep>> ELSE <<".">>)
          ELSE LET e == SetMax(ends)
               IN IF hasRoot /\ e = 2 THEN <<Sep, Sep>>
                  ELSE SubSeq(p, 1, e - 1)

\* path.basename: the last run of non-separator characters
basename(p) ==
  LET nonSep == {i \in 1..Len(p) : p[i] # Sep}
  IN IF nonSep = {} THEN <<>>
     ELSE LET e == SetMax(nonSep)
              before == {i \in 1..e : p[i] = Sep}
              s == IF before = {} THEN 1 ELSE SetMax(before) + 1
          IN SubSeq(p, s, e)

-----------------------------------------------------------------------------
(* gameLogic.js: PathDepth, DistanceCalculator, GuessComparator *)

\* mutant: the empty segments are not filtered out
getDirectoryDepth_EmptySegmentsCounted(filePath) ==
  Max(0, Len(Split(normalize(filePath))) - 1)

getDirectoryDepth(filePath) ==
  LET normalized == normalize(filePath)
      parts == SelectSeq(Split(normalized), LAMBDA part : Len(part) > 0)
  IN Max(0, Len(parts) - 1)

getParentDirectory(filePath) == dirname(filePath)

\* mutant: the base names are compared without lower-casing them
calculateDistance_CaseSensitiveNames(guessPath, targetP) ==
  LET guessParent == getParentDirectory(guessPath)
      targetParent == getParentDirectory(targetP)
  IN IF toLowerCase(guessParent) = toLowerCase(targetParent)
       THEN [method |-> "alphabetical",
             distance |-> Abs(FirstCharCode(basename(guessPath))
                              - FirstCharCode(basename(targetP)))]
     ELSE [method |-> "depth",
           distance |-> Abs(getDirectoryDepth(guessPath) - getDirectoryDepth(targetP))]

\* mutant: the parent directories are compared case-sensitively
calculateDistance_CaseSensitiveParents(guessPath, targetP) ==
  IF getParentDirectory(guessPath) = getParentDirectory(targetP)
    THEN [method |-> "alphabetical",
          distance |-> Abs(FirstCharCode(toLowerCase(basename(guessPath)))
                           - FirstCharCode(toLowerCase(basename(targetP))))]
  ELSE [method |-> "depth",
        distance |-> Abs(getDirectoryDepth(guessPath) - getDirectoryDepth(targetP))]

calculateDistance(guessPath, targetP) ==
  LET guessParent == getParentDirectory(guessPath)
      targetParent == getParentDirectory(targetP)
  IN IF toLowerCase(guessParent) = toLowerCase(targetParent)
       THEN LET guessName == toLowerCase(basename(guessPath))
                targetName == toLowerCase(basename(targetP))
                guessChar == FirstCharCode(guessName)
                targetChar == FirstCharCode(targetName)
            IN [method |-> "alphabetical",
                distance |-> Abs(guessChar - targetChar)]
     ELSE LET guessDepth == getDirectoryDepth(guessPath)
              targetDepth == getDirectoryDepth(targetP)
          IN [method |-> "depth",
              distance |-> Abs(guessDepth - targetDepth)]

\* !previousGuessPath : null, undefined and the empty string are falsy
IsAbsent(prev) == prev = NoGuess \/ prev = <<>>

\* mutant: equal distances report 'first' instead of 'same'
compareGuesses_EqualIsFirst(newGuess, previousGuess, targetP) ==
  IF IsAbsent(previousGuess) THEN "first"
  ELSE LET newDistance == calculateDistance(newGuess, targetP)
           previousDistance == calculateDistance(previousGuess, targetP)
       IN IF newDistance.method = previousDistance.method
            THEN IF newDistance.distance < previousDistance.distance THEN "closer"
                 ELSE IF newDistance.distance > previousDistance.distance THEN "farther"
                 ELSE "first"
          ELSE IF newDistance.method = "alphabetical" THEN "closer"
          ELSE "farther"

\* mutant: the magnitudes are compared on one scale whatever the methods
compareGuesses_UnifiedScale(newGuess, previousGuess, targetP) ==
  IF IsAbsent(previousGuess) THEN "first"
  ELSE LET newDistance == calculateDistance(newGuess, targetP)
           previousDistance == calculateDistance(previousGuess, targetP)
       IN IF newDistance.distance < previousDistance.distance THEN "closer"
          ELSE IF newDistance.distance > previousDistance.distance THEN "farther"
          ELSE "same"

\* mutant: with different methods the new guess always wins
compareGuesses_NewGuessWins(newGuess, previousGuess, targetP) ==
  IF IsAbsent(previousGuess) THEN "first"
  ELSE LET newDistance == calculateDistance(newGuess, targetP)
           previousDistance == calculateDistance(previousGuess, targetP)
       IN IF newDistance.method = previousDistance.method
            THEN IF newDistance.distance < previousDistance.distance THEN "closer"
                 ELSE IF newDistance.distance > previousDistance.distance THEN "farther"
                 ELSE "same"
          ELSE "closer"

compareGuesses(newGuess, previousGuess, targetP) ==
  IF IsAbsent(previousGuess) THEN "first"
  ELSE LET newDistance == calculateDistance(newGuess, targetP)
           previousDistance == calculateDistance(previousGuess, targetP)
       IN IF newDistance.method = previousDistance.method
            THEN IF newDistance.distance < previousDistance.distance THEN "closer"
                 ELSE IF newDistance.distance > previousDistance.distance THEN "farther"
                 ELSE "same"
          ELSE IF newDistance.method = "alphabetical" THEN "closer"
          ELSE IF previousDistance.method = "alphabetical" THEN "farther"
          ELSE IF newDistance.distance < previousDistance.distance THEN "closer"
          ELSE IF newDistance.distance > previousDistance.distance THEN "farther"
          ELSE "same"

-----------------------------------------------------------------------------
(* gameLogic.js: DirectoryScanner (scanDirectory) *)

\* no comparison is under way
CompareIdle ==
  /\ newGuessPath = <<>>
  /\ previousGuessPath = NoGuess
  /\ targetPath = <<>>
  /\ comparison = Pending
  /\ distanceInfo = NoDistance

\* a path of the file system is the sequence of its segment names;
\* path.join(dirPath, entry.name) appends the entry's name
JoinEntry(dirPath, name) == Append(dirPath, name)

EntryName(p) == p[Len(p)]

IsPrefix(a, b) == Len(a) <= Len(b) /\ SubSeq(b, 1, Len(a)) = a

KindOf(p) == IF p \in DOMAIN fsKind THEN fsKind[p] ELSE "none"

\* mutant: everything that is not a directory counts as a file
isFile_NotDirectory(p) == KindOf(p) # "dir"

\* entry.isFile()
isFile(p) == KindOf(p) = "file"

\* fs.existsSync
existsSync(p) == KindOf(p) # "none"

\* the entries readdir finds in a directory
Children(d) == {p \in DOMAIN fsKind : Len(p) = Len(d) + 1 /\ IsPrefix(d, p) /\ existsSync(p)}

\* readdir succeeds on a directory that can be listed
Readable(d) == KindOf(d) = "dir" /\ d \notin unreadable

\* readdir promises no order: every arrangement of the entries' names
Orderings(S) ==
  {o \in [1..Cardinality(S) -> {EntryName(p) : p \in S}] :
     \A i, j \in 1..Cardinality(S) : i # j => o[i] # o[j]}

\* mutant: node_modules is missing from the skip list
skipDirs_WithoutNodeModules == {"$Recycle.Bin", "System Volume Information", "Windows", ".git"}

skipDirs == {"$Recycle.Bin", "System Volume Information", "Windows", "node_modules", ".git"}

\* fileList.length % 5 === 0
ProgressBatch == 5

\* initialize-game and reset-game call scanCommonDirectories() without a
\* progress callback: if (progressCallback) is then false
HasProgressCallback == handler = NoHandler

Report(entry) == IF HasProgressCallback THEN Append(progress, entry) ELSE progress

Frame(dirPath, currentDepth) ==
  [dirPath |-> dirPath, currentDepth |-> currentDepth, pc |-> "enter", entries |-> <<>>]

Top == stack[Len(stack)]

SetTop(f) == [stack EXCEPT ![Len(stack)] = f]

Scanning == scanStatus = "running" /\ Len(stack) > 0

\* mutant: the depth test is off by one
StopAtDepth_OffByOne(currentDepth) == currentDepth > maxDepth

\* mutant: the deepest level allowed is not listed
StopAtDepth_OneLevelEarly(currentDepth) == currentDepth + 1 >= maxDepth

\* currentDepth >= maxDepth
StopAtDepth(currentDepth) == currentDepth >= maxDepth

\* mutant: the cap test lets one more file in
CapReached_OffByOne == Len(fileList) > maxFiles

\* fileList.length >= maxFiles
CapReached == Len(fileList) >= maxFiles

\* mutant: files of the root are reported in batches like the others
ReportsFile_BatchOnly(count, currentDepth) == count % ProgressBatch = 0

\* line 145: fileList.length % 5 === 0 || currentDepth === 0
ReportsFile(count, currentDepth) == count % ProgressBatch = 0 \/ currentDepth = 0

\* line 122: the call returns the accumulator at once
ScanEnterStop ==
  /\ Scanning
  /\ Top.pc = "enter"
  /\ StopAtDepth(Top.currentDepth) \/ CapReached
  /\ stack' = SetTop([Top EXCEPT !.pc = "return"])
  /\ UNCHANGED <<scanRoot, maxDepth, maxFiles, fileList, scanStatus, listed, progress>>
  /\ UNCHANGED <<cmpVars, fsVars, commonVars>>
  /\ UNCHANGED <<pureVars, gameVars>>

\* lines 126-132: the top-level call reports its directory, then readdir is awaited
ScanEnterList ==
  /\ Scanning
  /\ Top.pc = "enter"
  /\ ~(StopAtDepth(Top.currentDepth) \/ CapReached)
  /\ progress' = IF Top.currentDepth = 0
                   THEN Report([kind |-> "directory", path |-> Top.dirPath,
                                          count |-> Len(fileList)])
                 ELSE progress
  /\ stack' = SetTop([Top EXCEPT !.pc = "readdir"])
  /\ UNCHANGED <<scanRoot, maxDepth, maxFiles, fileList, scanStatus, listed>>
  /\ UNCHANGED <<cmpVars, fsVars, commonVars>>
  /\ UNCHANGED <<pureVars, gameVars>>

Listing == [dir |-> Top.dirPath, depth |-> Top.currentDepth, before |-> fileList]

\* mutant: no catch around the listing; the rejection leaves the call, is
\* swallowed by the caller's per-entry catch or reaches the top-level caller
ReaddirFails_Propagates ==
  /\ Scanning
  /\ Top.pc = "readdir"
  /\ ~Readable(Top.dirPath)
  /\ listed' = Append(listed, Listing)
  /\ stack' = SubSeq(stack, 1, Len(stack) - 1)
  /\ scanStatus' = IF Len(stack) = 1 THEN "threw" ELSE scanStatus
  /\ UNCHANGED <<scanRoot, maxDepth, maxFiles, fileList, progress>>
  /\ UNCHANGED <<cmpVars, fsVars, commonVars>>
  /\ UNCHANGED <<pureVars, gameVars>>

\* lines 132, 160-164: readdir rejects, the outer catch swallows the error
ReaddirFails ==
  /\ Scanning
  /\ Top.pc = "readdir"
  /\ ~Readable(Top.dirPath)
  /\ listed' = Append(listed, Listing)
  /\ stack' = SetTop([Top EXCEPT !.pc = "return"])
  /\ UNCHANGED <<scanRoot, maxDepth, maxFiles, fileList, scanStatus, progress>>
  /\ UNCHANGED <<cmpVars, fsVars, commonVars>>
  /\ UNCHANGED <<pureVars, gameVars>>

\* line 132: readdir resolves with the directory's entries, in some order
ReaddirReturns ==
  /\ Scanning
  /\ Top.pc = "readdir"
  /\ Readable(Top.dirPath)
  /\ \E order \in Orderings(Children(Top.dirPath)) :
       stack' = SetTop([Top EXCEPT !.pc = "loop", !.entries = order])
  /\ listed' = Append(listed, Listing)
  /\ UNCHANGED <<scanRoot, maxDepth, maxFiles, fileList, scanStatus, progress>>
  /\ UNCHANGED <<cmpVars, fsVars, commonVars>>
  /\ UNCHANGED <<pureVars, gameVars>>

InLoop == Scanning /\ Top.pc = "loop"

NextEntry == JoinEntry(Top.dirPath, Head(Top.entries))

\* line 134: every entry has been visited
LoopExhausted ==
  /\ InLoop
  /\ Top.entries = <<>>
  /\ stack' = SetTop([Top EXCEPT !.pc = "return"])
  /\ UNCHANGED <<scanRoot, maxDepth, maxFiles, fileList, scanStatus, listed, progress>>
  /\ UNCHANGED <<cmpVars, fsVars, commonVars>>
  /\ UNCHANGED <<pureVars, gameVars>>

\* lines 135-137: break once enough files are collected
LoopBreak ==
  /\ InLoop
  /\ Top.entries # <<>>
  /\ CapReached
  /\ stack' = SetTop([Top EXCEPT !.pc = "return"])
  /\ UNCHANGED <<scanRoot, maxDepth, maxFiles, fileList, scanStatus, listed, progress>>
  /\ UNCHANGED <<cmpVars, fsVars, commonVars>>
  /\ UNCHANGED <<pureVars, gameVars>>

\* lines 142-147: a regular file is pushed and, at the root or on every fifth
\* file, reported
ScanFile ==
  /\ InLoop
  /\ Top.entries # <<>>
  /\ ~CapReached
  /\ isFile(NextEntry)
  /\ fileList' = Append(fileList, NextEntry)
  /\ progress' = IF ReportsFile(Len(fileList'), Top.currentDepth)
                   THEN Report([kind |-> "file", path |-> NextEntry,
                                          count |-> Len(fileList')])
                 ELSE progress
  /\ stack' = SetTop([Top EXCEPT !.entries = Tail(Top.entries)])
  /\ UNCHANGED <<scanRoot, maxDepth, maxFiles, scanStatus, listed>>
  /\ UNCHANGED <<cmpVars, fsVars, commonVars>>
  /\ UNCHANGED <<pureVars, gameVars>>

\* lines 148-153: a directory outside the skip list is scanned one level deeper
ScanSubdirectory ==
  /\ InLoop
  /\ Top.entries # <<>>
  /\ ~CapReached
  /\ KindOf(NextEntry) = "dir"
  /\ Head(Top.entries) \notin skipDirs
  /\ stack' = Append(SetTop([Top EXCEPT !.entries = Tail(Top.entries)]),
                     Frame(NextEntry, Top.currentDepth + 1))
  /\ UNCHANGED <<scanRoot, maxDepth, maxFiles, fileList, scanStatus, listed, progress>>
  /\ UNCHANGED <<cmpVars, fsVars, commonVars>>
  /\ UNCHANGED <<pureVars, gameVars>>

\* lines 148-154: a skip-listed directory, or an entry that is neither a file
\* nor a directory, is passed over
ScanSkipEntry ==
  /\ InLoop
  /\ Top.entries # <<>>
  /\ ~CapReached
  /\ \/ KindOf(NextEntry) = "dir" /\ Head(Top.entries) \in skipDirs
     \/ KindOf(NextEntry) = "other"
  /\ stack' = SetTop([Top EXCEPT !.entries = Tail(Top.entries)])
  /\ UNCHANGED <<scanRoot, maxDepth, maxFiles, fileList, scanStatus, listed, progress>>
  /\ UNCHANGED <<cmpVars, fsVars, commonVars>>
  /\ UNCHANGED <<pureVars, gameVars>>

\* lines 123, 164: return fileList; the caller's await resumes, or the
\* top-level call is over
ScanReturn ==
  /\ Scanning
  /\ Top.pc = "return"
  /\ stack' = SubSeq(stack, 1, Len(stack) - 1)
  /\ scanStatus' = IF Len(stack) = 1 THEN "returned" ELSE scanStatus
  /\ UNCHANGED <<scanRoot, maxDepth, maxFiles, fileList, listed, progress>>
  /\ UNCHANGED <<cmpVars, fsVars, commonVars>>
  /\ UNCHANGED <<pureVars, gameVars>>

ScanStep ==
  \/ ScanEnterStop
  \/ ScanEnterList
  \/ ReaddirFails
  \/ ReaddirReturns
  \/ LoopExhausted
  \/ LoopBreak
  \/ ScanFile
  \/ ScanSubdirectory
  \/ ScanSkipEntry
  \/ ScanReturn

ScanIdle ==
  /\ fsKind = <<>>
  /\ unreadable = {}
  /\ scanRoot = <<>>
  /\ maxDepth = 0
  /\ maxFiles = 0
  /\ stack = <<>>
  /\ fileList = <<>>
  /\ scanStatus = "idle"
  /\ listed = <<>>
  /\ progress = <<>>

CommonIdle ==
  /\ existingDirs = <<>>
  /\ rootIndex = 0
  /\ allFiles = <<>>
  /\ commonPc = "idle"
  /\ outcome = "none"

-----------------------------------------------------------------------------
(* Directory trees given to a direct scanDirectory call *)

FsTop == <<>>

\* the entries a tree may hold, each with the kinds it may have
ScanSkeleton ==
  [p \in {<<"a.txt">>, <<"docs">>, <<"docs", "b.txt">>, <<"docs", "deep">>,
          <<"docs", "deep", "c.txt">>, <<"node_modules">>, <<"node_modules", "m.js">>}
   |-> CASE p = <<"a.txt">> -> {"file", "other", "none"}
         [] p \in {<<"docs">>, <<"docs", "deep">>, <<"node_modules">>} -> {"dir", "none"}
         [] OTHER -> {"file", "none"}]

\* an entry exists only inside an existing directory
WellFormedTree(t) ==
  \A p \in DOMAIN t :
    (t[p] # "none" /\ Len(p) > 0) => t[SubSeq(p, 1, Len(p) - 1)] = "dir"

ScanTrees ==
  {t \in [DOMAIN ScanSkeleton \cup {FsTop} -> {"dir", "file", "other", "none"}] :
     /\ t[FsTop] = "dir"
     /\ \A p \in DOMAIN ScanSkeleton : t[p] \in ScanSkeleton[p]
     /\ WellFormedTree(t)}

DirsOf(t) == {p \in DOMAIN t : t[p] = "dir"}

InitScan ==
  /\ GameIdle
  /\ PureIdle
  /\ CompareIdle
  /\ CommonIdle
  /\ fsKind \in ScanTrees
  /\ unreadable \in {{}} \cup {{d} : d \in DirsOf(fsKind)}
  /\ scanRoot \in {d \in DirsOf(fsKind) : Len(d) <= 1}
  /\ maxDepth \in 0..MaxDepthArg
  /\ maxFiles \in 0..MaxFilesArg
  /\ stack = <<Frame(scanRoot, 0)>>
  /\ fileList = <<>>
  /\ scanStatus = "running"
  /\ listed = <<>>
  /\ progress = <<>>

NextScan == ScanStep

SpecScan == InitScan /\ [][NextScan]_vars

-----------------------------------------------------------------------------
(* Properties of a direct scanDirectory call *)

Returned == scanStatus = "returned"

FilesReturned == {fileList[i] : i \in 1..Len(fileList)}

ListedDirs == {listed[k].dir : k \in 1..Len(listed)}

\* the directories whose listing was tried and failed
FailedDirs == {d \in ListedDirs : fsKind[d] # "dir" \/ d \in unreadable}

Parent(p) == SubSeq(p, 1, Len(p) - 1)

\* levels below the root of the scan, the root being level 0
Level(p) == Len(p) - Len(scanRoot)

SkipListed == {"$Recycle.Bin", "System Volume Information", "Windows", "node_modules", ".git"}

\* C1: a scan started with an empty accumulator never holds more than
\* maxFiles paths, wherever in the tree the files are.
C1_AtMostMaxFiles == Len(fileList) <= maxFiles

\* the cap of 2 is reached by files of two different directories while a
\* third file is left out
C1_Witness ==
  /\ Returned
  /\ scanRoot = FsTop
  /\ maxDepth = 3
  /\ maxFiles = 2
  /\ unreadable = {}
  /\ \A p \in {<<"a.txt">>, <<"docs", "b.txt">>, <<"docs", "deep", "c.txt">>} :
       fsKind[p] = "file"
  /\ Len(fileList) = 2
  /\ Len(fileList[1]) # Len(fileList[2])

\* C2: no directory maxDepth or more levels below the root is listed, every
\* file found lies in a directory fewer than maxDepth levels below the root,
\* and with maxDepth = 0 nothing is listed and nothing is found.
C2_NeverPastMaxDepth ==
  /\ \A d \in ListedDirs : Level(d) < maxDepth
  /\ \A f \in FilesReturned : Level(Parent(f)) < maxDepth
  /\ maxDepth = 0 => (fileList = <<>> /\ listed = <<>>)

\* with maxDepth = 2 the file two directories down is left out
C2_Witness ==
  /\ Returned
  /\ scanRoot = FsTop
  /\ maxDepth = 2
  /\ unreadable = {}
  /\ fsKind[<<"docs", "deep", "c.txt">>] = "file"
  /\ <<"docs", "b.txt">> \in FilesReturned
  /\ <<"docs", "deep", "c.txt">> \notin FilesReturned
  /\ Len(fileList) < maxFiles

\* C3 as claimed: for every root, no path found has a skip-listed name among
\* its directories.
C3_NeverInsideSkipListedDirectory ==
  \A f \in FilesReturned : \A k \in 1..(Len(f) - 1) : f[k] \notin SkipListed

\* C3 amended: no path found has a skip-listed name among its directories
\* below the root of the scan, and no skip-listed directory below the root is
\* listed.
C3_NoSkipListedDirectoryBelowRoot ==
  /\ \A f \in FilesReturned :
       \A k \in (Len(scanRoot) + 1)..(Len(f) - 1) : f[k] \notin SkipListed
  /\ \A d \in ListedDirs : d # scanRoot => EntryName(d) \notin SkipListed

\* node_modules holds a file, the scan of its parent ends below the cap
\* without it
C3_Witness ==
  /\ Returned
  /\ scanRoot = FsTop
  /\ maxDepth >= 2
  /\ unreadable = {}
  /\ fsKind[<<"node_modules", "m.js">>] = "file"
  /\ <<"a.txt">> \in FilesReturned
  /\ <<"node_modules", "m.js">> \notin FilesReturned
  /\ Len(fileList) < maxFiles

\* C4: a listing that fails, at the root or below, raises nothing to the
\* caller, adds no file of that directory, keeps every file collected before
\* it, and leaves the parent's loop running: when the scan ends below the cap
\* every sibling file is in the result and every sibling directory that
\* qualifies was listed.
C4_ListingFailureIsLocal ==
  /\ scanStatus # "threw"
  /\ \A k \in 1..Len(listed) : IsPrefix(listed[k].before, fileList)
  /\ \A d \in FailedDirs : \A f \in FilesReturned : ~IsPrefix(d, f)
  /\ (Returned /\ Len(fileList) < maxFiles) =>
       \A d \in FailedDirs : d # scanRoot =>
         \A sib \in Children(Parent(d)) :
           /\ fsKind[sib] = "file" => sib \in FilesReturned
           /\ (fsKind[sib] = "dir" /\ EntryName(sib) \notin SkipListed
               /\ Level(sib) < maxDepth) => sib \in ListedDirs

\* docs/deep cannot be listed: a.txt, found before, stays, and docs/b.txt,
\* visited after the failure, is found
C4_Witness ==
  /\ Returned
  /\ scanRoot = FsTop
  /\ <<"docs", "deep">> \in FailedDirs
  /\ fileList = << <<"a.txt">>, <<"docs", "b.txt">> >>
  /\ \E k \in 1..Len(listed) :
       listed[k].dir = <<"docs", "deep">> /\ listed[k].before = << <<"a.txt">> >>

-----------------------------------------------------------------------------
(* gameLogic.js: RootSetScanner (scanCommonDirectories) *)

\* process.env.HOME
userProfile == <<"home">>

commonDirs ==
  <<JoinEntry(userProfile, "Documents"), JoinEntry(userProfile, "Desktop"),
    JoinEntry(userProfile, "Downloads"), JoinEntry(userProfile, "Pictures"),
    JoinEntry(userProfile, "Music"), JoinEntry(userProfile, "Videos")>>

\* scanDirectory(dir, 7, ...)
commonMaxDepth == 7

\* mutant: only the directories that can be listed are kept
ExistingCommonDirs_Accessible == SelectSeq(commonDirs, Readable)

\* commonDirs.filter(dir => fs.existsSync(dir))
ExistingCommonDirs == SelectSeq(commonDirs, existsSync)

\* mutant: every root is given the whole cap
remainingSlots_WholeCap == totalMaxFiles

\* totalMaxFiles - allFiles.length
remainingSlots == totalMaxFiles - Len(allFiles)

CurrentRoot == existingDirs[rootIndex + 1]

\* lines 185-189: no well-known directory exists
CommonNoRoots ==
  /\ commonPc = "start"
  /\ Len(ExistingCommonDirs) = 0
  /\ outcome' = "No accessible directories found"
  /\ commonPc' = "done"
  /\ UNCHANGED <<existingDirs, rootIndex, allFiles>>
  /\ UNCHANGED <<cmpVars, fsVars, scanVars, progress>>
  /\ UNCHANGED <<pureVars, gameVars>>

\* lines 185-194: the loop over the existing roots starts
CommonStart ==
  /\ commonPc = "start"
  /\ Len(ExistingCommonDirs) # 0
  /\ existingDirs' = ExistingCommonDirs
  /\ allFiles' = <<>>
  /\ rootIndex' = 0
  /\ commonPc' = "loop"
  /\ UNCHANGED outcome
  /\ UNCHANGED <<cmpVars, fsVars, scanVars, progress>>
  /\ UNCHANGED <<pureVars, gameVars>>

ScanningLabel ==
  [kind |-> "scanning", path |-> CurrentRoot, count |-> Len(allFiles)]

\* lines 194-204: the cap is reached, the remaining roots are left out
CommonBreak ==
  /\ commonPc = "loop"
  /\ rootIndex < Len(existingDirs)
  /\ Len(allFiles) >= totalMaxFiles
  /\ progress' = Report(ScanningLabel)
  /\ commonPc' = "finish"
  /\ UNCHANGED <<existingDirs, rootIndex, allFiles, outcome>>
  /\ UNCHANGED <<cmpVars, fsVars, scanVars>>
  /\ UNCHANGED <<pureVars, gameVars>>

\* lines 194-208: scanDirectory(dir, 7, 0, [], remainingSlots, progressCallback)
\* is called and awaited
CommonScanRoot ==
  /\ commonPc = "loop"
  /\ rootIndex < Len(existingDirs)
  /\ Len(allFiles) < totalMaxFiles
  /\ progress' = Report(ScanningLabel)
  /\ scanRoot' = CurrentRoot
  /\ maxDepth' = commonMaxDepth
  /\ maxFiles' = remainingSlots
  /\ stack' = <<Frame(CurrentRoot, 0)>>
  /\ fileList' = <<>>
  /\ scanStatus' = "running"
  /\ commonPc' = "scanning"
  /\ UNCHANGED <<existingDirs, rootIndex, allFiles, outcome, listed>>
  /\ UNCHANGED <<cmpVars, fsVars>>
  /\ UNCHANGED <<pureVars, gameVars>>

\* mutant: the loop does not move on to the next root
CommonCollect_SameRoot ==
  /\ commonPc = "scanning"
  /\ scanStatus = "returned"
  /\ allFiles' = allFiles \o fileList
  /\ progress' = Report([kind |-> "completed", path |-> CurrentRoot,
                                   count |-> Len(allFiles')])
  /\ scanStatus' = "idle"
  /\ commonPc' = "loop"
  /\ UNCHANGED <<existingDirs, outcome, rootIndex>>
  /\ UNCHANGED <<scanRoot, maxDepth, maxFiles, stack, fileList, listed>>
  /\ UNCHANGED <<cmpVars, fsVars>>
  /\ UNCHANGED <<pureVars, gameVars>>

\* lines 208-213: the root's files are appended to the aggregated list
CommonCollect ==
  /\ commonPc = "scanning"
  /\ scanStatus = "returned"
  /\ allFiles' = allFiles \o fileList
  /\ progress' = Report([kind |-> "completed", path |-> CurrentRoot,
                                   count |-> Len(allFiles')])
  /\ rootIndex' = rootIndex + 1
  /\ scanStatus' = "idle"
  /\ commonPc' = "loop"
  /\ UNCHANGED <<existingDirs, outcome>>
  /\ UNCHANGED <<scanRoot, maxDepth, maxFiles, stack, fileList, listed>>
  /\ UNCHANGED <<cmpVars, fsVars>>
  /\ UNCHANGED <<pureVars, gameVars>>

\* line 194: every existing root has been visited
CommonLoopEnd ==
  /\ commonPc = "loop"
  /\ rootIndex >= Len(existingDirs)
  /\ commonPc' = "finish"
  /\ UNCHANGED <<existingDirs, rootIndex, allFiles, outcome>>
  /\ UNCHANGED <<cmpVars, fsVars, scanVars, progress>>
  /\ UNCHANGED <<pureVars, gameVars>>

\* lines 223-225
CommonNoFiles ==
  /\ commonPc = "finish"
  /\ Len(allFiles) = 0
  /\ outcome' = "No files found in any accessible directories"
  /\ commonPc' = "done"
  /\ UNCHANGED <<existingDirs, rootIndex, allFiles>>
  /\ UNCHANGED <<cmpVars, fsVars, scanVars, progress>>
  /\ UNCHANGED <<pureVars, gameVars>>

\* line 227
CommonReturn ==
  /\ commonPc = "finish"
  /\ Len(allFiles) # 0
  /\ outcome' = "returned"
  /\ commonPc' = "done"
  /\ UNCHANGED <<existingDirs, rootIndex, allFiles>>
  /\ UNCHANGED <<cmpVars, fsVars, scanVars, progress>>
  /\ UNCHANGED <<pureVars, gameVars>>

CommonStep ==
  \/ CommonNoRoots
  \/ CommonStart
  \/ CommonBreak
  \/ CommonScanRoot
  \/ CommonCollect
  \/ CommonLoopEnd
  \/ CommonNoFiles
  \/ CommonReturn

-----------------------------------------------------------------------------
(* Home directories given to scanCommonDirectories *)

\* what a well-known directory may be: missing; a directory that cannot be
\* listed; an empty directory; a directory with a.txt, sub/b.txt and
\* sub/.git/HEAD; a directory with a chain of seven nested directories,
\* y.txt in the sixth and z.txt in the seventh
RootShapes == {"missing", "locked", "empty", "two", "deep"}

ChainNames == <<"l1", "l2", "l3", "l4", "l5", "l6", "l7">>

Chain(r, n) == r \o SubSeq(ChainNames, 1, n)

RootEntries(r) ==
  {r, JoinEntry(r, "a.txt"), JoinEntry(r, "sub"), JoinEntry(JoinEntry(r, "sub"), "b.txt"),
   r \o <<"sub", ".git">>, r \o <<"sub", ".git", "HEAD">>,
   JoinEntry(Chain(r, 6), "y.txt"), JoinEntry(Chain(r, 7), "z.txt")}
  \cup {Chain(r, n) : n \in 1..Len(ChainNames)}

ShapeKind(shape, r, p) ==
  CASE shape = "missing" -> "none"
    [] shape # "missing" /\ p = r -> "dir"
    [] shape = "two" /\ p \in {JoinEntry(r, "a.txt"), JoinEntry(JoinEntry(r, "sub"), "b.txt"),
                               r \o <<"sub", ".git", "HEAD">>}
         -> "file"
    [] shape = "two" /\ p \in {JoinEntry(r, "sub"), r \o <<"sub", ".git">>} -> "dir"
    [] shape = "deep" /\ p \in {Chain(r, n) : n \in 1..Len(ChainNames)} -> "dir"
    [] shape = "deep" /\ p \in {JoinEntry(Chain(r, 6), "y.txt"), JoinEntry(Chain(r, 7), "z.txt")}
         -> "file"
    [] OTHER -> "none"

HomePaths ==
  {FsTop, userProfile} \cup UNION {RootEntries(commonDirs[i]) : i \in 1..Len(commonDirs)}

HomeTree(shapes) ==
  [p \in HomePaths |->
     IF p \in {FsTop, userProfile} THEN "dir"
     ELSE LET i == CHOOSE j \in 1..Len(commonDirs) : IsPrefix(commonDirs[j], p)
          IN ShapeKind(shapes[i], commonDirs[i], p)]

HomeShapes ==
  {sh \in [1..Len(commonDirs) -> RootShapes] :
     Cardinality({i \in 1..Len(commonDirs) : sh[i] # "missing"}) <= MaxRoots}

InitCommon ==
  /\ GameIdle
  /\ PureIdle
  /\ CompareIdle
  /\ \E sh \in HomeShapes :
       /\ fsKind = HomeTree(sh)
       /\ unreadable = {commonDirs[i] : i \in {j \in 1..Len(commonDirs) : sh[j] = "locked"}}
  /\ scanRoot = <<>>
  /\ maxDepth = 0
  /\ maxFiles = 0
  /\ stack = <<>>
  /\ fileList = <<>>
  /\ scanStatus = "idle"
  /\ listed = <<>>
  /\ progress = <<>>
  /\ existingDirs = <<>>
  /\ rootIndex = 0
  /\ allFiles = <<>>
  /\ commonPc = "start"
  /\ outcome = "none"

NextCommon == ScanStep \/ CommonStep

SpecCommon == InitCommon /\ [][NextCommon]_vars

-----------------------------------------------------------------------------
(* Properties of scanCommonDirectories *)

CommonDone == commonPc = "done"

SomeRootExists == \E i \in 1..Len(commonDirs) : fsKind[commonDirs[i]] # "none"

RootsThatExist == {commonDirs[i] : i \in {j \in 1..Len(commonDirs) : fsKind[commonDirs[j]] # "none"}}

\* C5: the aggregated list never holds more than the global cap; each root
\* is scanned with maxFiles = cap - paths collected from the earlier roots,
\* and a root is scanned only while fewer than cap paths are collected.
C5_SharedGlobalCap ==
  /\ Len(allFiles) <= totalMaxFiles
  /\ commonPc = "scanning" =>
       /\ Len(allFiles) < totalMaxFiles
       /\ maxFiles = totalMaxFiles - Len(allFiles)
       /\ Len(allFiles) + Len(fileList) <= totalMaxFiles
  /\ \A j \in 1..Len(existingDirs) :
       existingDirs[j] \in ListedDirs =>
         \/ j <= rootIndex
         \/ j = rootIndex + 1 /\ commonPc = "scanning"

\* the cap is reached with a root still to come, which holds files and is
\* never listed
C5_Witness ==
  /\ CommonDone
  /\ outcome = "returned"
  /\ Len(allFiles) = totalMaxFiles
  /\ rootIndex < Len(existingDirs)
  /\ \E j \in (rootIndex + 1)..Len(existingDirs) :
       /\ fsKind[JoinEntry(existingDirs[j], "a.txt")] = "file"
       /\ existingDirs[j] \notin ListedDirs

\* C6: the no-accessible-roots error is raised exactly when none of the six
\* directories exists, and then nothing is listed; the no-files-found error
\* exactly when a root exists and the aggregated list is empty, every
\* existing root having been listed; otherwise a non-empty list is returned.
C6_OutcomeByRootsAndFiles ==
  CommonDone =>
    /\ outcome \in {"No accessible directories found",
                    "No files found in any accessible directories", "returned"}
    /\ outcome = "No accessible directories found" <=> ~SomeRootExists
    /\ outcome = "No accessible directories found" => listed = <<>>
    /\ outcome = "No files found in any accessible directories"
         <=> (SomeRootExists /\ allFiles = <<>>)
    /\ outcome = "No files found in any accessible directories"
         => RootsThatExist \subseteq ListedDirs
    /\ outcome = "returned" <=> (SomeRootExists /\ allFiles # <<>>)

\* two roots exist, one cannot be listed and one is empty
C6_Witness ==
  /\ CommonDone
  /\ outcome = "No files found in any accessible directories"
  /\ Cardinality(RootsThatExist) = 2
  /\ Cardinality(RootsThatExist \cap unreadable) = 1
  /\ RootsThatExist \subseteq ListedDirs

-----------------------------------------------------------------------------
(* Inputs of the comparison engine *)

DirChars == {"d", "e"}

FileChars == {"a", "k", "M"}

\* chains of at most n one-letter directory names
RECURSIVE DirChains(_)
DirChains(n) ==
  IF n = 0 THEN {<<>>}
  ELSE DirChains(n - 1)
       \cup {Append(c, <<x>>) : c \in {y \in DirChains(n - 1) : Len(y) = n - 1},
                                x \in DirChars}

\* "/" dir "/" dir "/" file
AbsPath(chain, file) ==
  <<Sep>> \o (IF Len(chain) = 0 THEN <<>> ELSE Join(chain) \o <<Sep>>) \o <<file>>

RegularPaths == {AbsPath(c, f) : c \in DirChains(MaxDirs), f \in FileChars}

\* the empty string, the root, a relative name, a doubled separator, and
\* folders that differ from a regular one only in case
IrregularPaths ==
  {<<>>, <<Sep>>, <<"k">>, <<Sep, "d", Sep, Sep, "a">>,
   <<Sep, "D", Sep, "a">>, <<Sep, "D", Sep, "e", Sep, "k">>}

GuessPaths == RegularPaths \cup IrregularPaths

InitCompare ==
  /\ GameIdle
  /\ PureIdle
  /\ ScanIdle
  /\ CommonIdle
  /\ newGuessPath \in GuessPaths
  /\ previousGuessPath \in GuessPaths \cup {NoGuess}
  /\ targetPath \in GuessPaths
  /\ comparison = Pending
  /\ distanceInfo = NoDistance

\* the two calls of the check-guess handler:
\*   comparison = compareGuesses(guessPath, previousGuessPath, targetFile)
\*   distanceInfo = calculateDistance(guessPath, targetFile)
CompareGuess ==
  /\ comparison = Pending
  /\ comparison' = compareGuesses(newGuessPath, previousGuessPath, targetPath)
  /\ distanceInfo' = calculateDistance(newGuessPath, targetPath)
  /\ UNCHANGED <<newGuessPath, previousGuessPath, targetPath>>
  /\ UNCHANGED <<fsVars, scanVars, progress, commonVars>>
  /\ UNCHANGED <<pureVars, gameVars>>

NextCompare == CompareGuess

SpecCompare == InitCompare /\ [][NextCompare]_vars

-----------------------------------------------------------------------------
(* Properties of the comparison engine, stated on the state after the call *)

Compared == comparison # Pending

EqualIgnoringCase(a, b) ==
  /\ Len(a) = Len(b)
  /\ \A i \in 1..Len(a) : LowerChar(a[i]) = LowerChar(b[i])

\* the guess lies in the target's folder
SameFolder(p, t) == EqualIgnoringCase(dirname(p), dirname(t))

\* |code of the first character of the lower-cased base name - the target's|
AlphaMagnitude(p, t) ==
  LET c(x) == IF basename(x) = <<>> THEN 0 ELSE CharCode(LowerChar(basename(x)[1]))
  IN Abs(c(p) - c(t))

DepthMagnitude(p, t) == Abs(getDirectoryDepth(p) - getDirectoryDepth(t))

Ordering(n, m) == IF n < m THEN "closer" ELSE IF n > m THEN "farther" ELSE "same"

PreviousGiven == previousGuessPath # NoGuess /\ previousGuessPath # <<>>

\* C7: compareGuesses returns 'first' whenever the previous guess is absent
\* (null, or the empty string, which JavaScript also treats as no value) and
\* never returns 'first' when a previous guess is given.
C7_FirstIffNoPrevious ==
  Compared => (comparison = "first" <=> ~PreviousGiven)

C7_Witness ==
  /\ Compared
  /\ previousGuessPath = NoGuess
  /\ newGuessPath = <<Sep, "d", Sep, "k">>
  /\ targetPath = <<Sep, "d", Sep, "M">>
  /\ comparison = "first"

\* C8: when both guesses are in the target's folder the verdict orders the
\* first-character code distances, when neither is it orders the depth
\* differences: smaller is closer, larger is farther, equal is same; with
\* target /d/M, previous /d/a (12) and new /d/k (2) the verdict is closer.
C8_SameMethodOrdersMagnitudes ==
  (Compared /\ PreviousGiven) =>
    /\ (SameFolder(newGuessPath, targetPath) /\ SameFolder(previousGuessPath, targetPath))
         => /\ comparison = Ordering(AlphaMagnitude(newGuessPath, targetPath),
                                     AlphaMagnitude(previousGuessPath, targetPath))
            /\ distanceInfo = [method |-> "alphabetical",
                               distance |-> AlphaMagnitude(newGuessPath, targetPath)]
    /\ (~SameFolder(newGuessPath, targetPath) /\ ~SameFolder(previousGuessPath, targetPath))
         => /\ comparison = Ordering(DepthMagnitude(newGuessPath, targetPath),
                                     DepthMagnitude(previousGuessPath, targetPath))
            /\ distanceInfo = [method |-> "depth",
                               distance |-> DepthMagnitude(newGuessPath, targetPath)]
    /\ (/\ targetPath = <<Sep, "d", Sep, "M">>
        /\ previousGuessPath = <<Sep, "d", Sep, "a">>
        /\ newGuessPath = <<Sep, "d", Sep, "k">>)
         => /\ comparison = "closer"
            /\ distanceInfo.distance = 2
            /\ calculateDistance(previousGuessPath, targetPath).distance = 12

C8_Witness ==
  /\ Compared
  /\ targetPath = <<Sep, "d", Sep, "M">>
  /\ previousGuessPath = <<Sep, "d", Sep, "a">>
  /\ newGuessPath = <<Sep, "d", Sep, "k">>
  /\ comparison = "closer"

\* C9: when exactly one of the two guesses is in the target's folder the
\* verdict ignores the magnitudes: closer if it is the new guess, farther if
\* it is the previous one.
C9_SameFolderBeatsDepth ==
  (Compared /\ PreviousGiven) =>
    /\ (SameFolder(newGuessPath, targetPath) /\ ~SameFolder(previousGuessPath, targetPath))
         => comparison = "closer"
    /\ (~SameFolder(newGuessPath, targetPath) /\ SameFolder(previousGuessPath, targetPath))
         => comparison = "farther"

\* the new guess is in the target's folder at alphabetical distance 12, the
\* previous one in another folder of the same depth (depth difference 0)
C9_Witness ==
  /\ Compared
  /\ PreviousGiven
  /\ SameFolder(newGuessPath, targetPath)
  /\ ~SameFolder(previousGuessPath, targetPath)
  /\ AlphaMagnitude(newGuessPath, targetPath) = 12
  /\ DepthMagnitude(previousGuessPath, targetPath) = 0
  /\ comparison = "closer"

\* C10: calculateDistance(p, p) is alphabetical with magnitude 0; every
\* distance has a natural-number magnitude, and its method is alphabetical
\* exactly when the two parent directories are equal ignoring case, depth
\* otherwise.
C10_DistanceMethodAndMagnitude ==
  Compared =>
    /\ distanceInfo.method \in {"alphabetical", "depth"}
    /\ distanceInfo.distance \in Nat
    /\ distanceInfo.method = "alphabetical"
         <=> EqualIgnoringCase(dirname(newGuessPath), dirname(targetPath))
    /\ newGuessPath = targetPath
         => distanceInfo = [method |-> "alphabetical", distance |-> 0]

C10_Witness ==
  /\ Compared
  /\ newGuessPath = targetPath
  /\ newGuessPath = <<Sep, "d", Sep, "e", Sep, "k">>
  /\ distanceInfo = [method |-> "alphabetical", distance |-> 0]

-----------------------------------------------------------------------------
(* gameLogic.js: PathDepth applied to every short string *)

DepthChars == {"/", ".", "d", "a"}

\* every string of at most n characters
RECURSIVE Strings(_)
Strings(n) ==
  IF n = 0 THEN {<<>>}
  ELSE Strings(n - 1)
       \cup {Append(w, c) : w \in {v \in Strings(n - 1) : Len(v) = n - 1}, c \in DepthChars}

InitDepth ==
  /\ GameIdle
  /\ CompareIdle
  /\ ScanIdle
  /\ CommonIdle
  /\ depthPath \in Strings(MaxPathLen)
  /\ depthResult = NoDepth
  /\ candidates = <<>>
  /\ randomValue = 0
  /\ selected = NotSelected

GetDirectoryDepth ==
  /\ depthResult = NoDepth
  /\ depthResult' = getDirectoryDepth(depthPath)
  /\ UNCHANGED <<depthPath, candidates, randomValue, selected>>
  /\ UNCHANGED <<cmpVars, fsVars, scanVars, progress, commonVars, gameVars>>

NextDepth == GetDirectoryDepth

SpecDepth == InitDepth /\ [][NextDepth]_vars

\* the segments of a string, counted at their first characters
SegmentCount(w) ==
  Cardinality({i \in 1..Len(w) : w[i] # Sep /\ (i = 1 \/ w[i - 1] = Sep)})

\* C11: getDirectoryDepth is the number of non-empty segments of the
\* normalized path minus one, floored at 0; the empty path and a root-level
\* file have depth 0.
C11_DepthIsSegmentsMinusOne ==
  depthResult # NoDepth =>
    /\ depthResult = Max(0, SegmentCount(normalize(depthPath)) - 1)
    /\ depthPath \in {<<>>, <<Sep>>, <<Sep, "a">>, <<"a">>, <<"d", Sep, ".", ".">>,
                      <<Sep, ".", ".", Sep>>} => depthResult = 0
    /\ depthPath \in {<<Sep, "d", Sep, "a">>, <<"d", Sep, Sep, "a">>, <<"d", Sep, "a">>,
                      <<".", ".", Sep, "a">>} => depthResult = 1

\* a doubled separator adds no level
C11_Witness ==
  /\ depthPath = <<"d", Sep, Sep, "a">>
  /\ depthResult = 1

-----------------------------------------------------------------------------
(* gameLogic.js: TargetSelector (selectTargetFile) *)

\* fileList[randomIndex]; an index out of range gives undefined
ElementAt(list, index) ==
  IF index + 1 \in 1..Len(list) THEN list[index + 1] ELSE Undefined

\* mutant: Math.round in place of Math.floor
selectTargetFile_Rounds(list, r) ==
  IF Len(list) = 0
    THEN [error |-> "No files available to select as target", value |-> Undefined]
  ELSE [error |-> "none",
        value |-> ElementAt(list, (2 * r * Len(list) + RandomSteps) \div (2 * RandomSteps))]

\* r / RandomSteps is the value of Math.random()
selectTargetFile(list, r) ==
  IF Len(list) = 0
    THEN [error |-> "No files available to select as target", value |-> Undefined]
  ELSE LET randomIndex == (r * Len(list)) \div RandomSteps
       IN [error |-> "none", value |-> ElementAt(list, randomIndex)]

CandidatePaths == {<<"home", "a.txt">>, <<"home", "b.txt">>, <<"home", "sub", "c.txt">>}

RECURSIVE Lists(_)
Lists(n) ==
  IF n = 0 THEN {<<>>}
  ELSE Lists(n - 1)
       \cup {Append(l, x) : l \in {k \in Lists(n - 1) : Len(k) = n - 1}, x \in CandidatePaths}

InitSelect ==
  /\ GameIdle
  /\ CompareIdle
  /\ ScanIdle
  /\ CommonIdle
  /\ depthPath = <<>>
  /\ depthResult = NoDepth
  /\ candidates \in Lists(MaxCandidates)
  /\ randomValue \in 0..(RandomSteps - 1)
  /\ selected = NotSelected

SelectTargetFile ==
  /\ selected = NotSelected
  /\ selected' = selectTargetFile(candidates, randomValue)
  /\ UNCHANGED <<depthPath, depthResult, candidates, randomValue>>
  /\ UNCHANGED <<cmpVars, fsVars, scanVars, progress, commonVars, gameVars>>

NextSelect == SelectTargetFile

SpecSelect == InitSelect /\ [][NextSelect]_vars

\* C12: selectTargetFile fails on the empty list, returns x on [x], and on a
\* non-empty list returns one of its elements whatever Math.random() gives.
C12_SelectsAnElement ==
  selected # NotSelected =>
    /\ selected.error = "No files available to select as target" <=> candidates = <<>>
    /\ candidates # <<>> =>
         /\ selected.error = "none"
         /\ \E i \in 1..Len(candidates) : selected.value = candidates[i]
    /\ Len(candidates) = 1 => selected.value = candidates[1]

\* the largest random value picks the last of three different candidates
C12_Witness ==
  /\ selected # NotSelected
  /\ Len(candidates) = 3
  /\ Cardinality({candidates[i] : i \in 1..3}) = 3
  /\ randomValue = RandomSteps - 1
  /\ selected.value = candidates[3]

-----------------------------------------------------------------------------
(* Both scanners: a direct scanDirectory call or a scanCommonDirectories call *)

InitFiles == InitScan \/ InitCommon

SpecFiles == InitFiles /\ [][NextCommon]_vars

\* every step of a running scanner is eventually taken: the awaited readdir
\* settles and the continuation runs
SpecFilesFair == SpecFiles /\ WF_vars(NextCommon)

NoDuplicates(list) == \A i, j \in 1..Len(list) : i # j => list[i] # list[j]

OnlyFiles(list) == \A i \in 1..Len(list) : KindOf(list[i]) = "file"

\* C13: the list of scanDirectory and the aggregated list of
\* scanCommonDirectories hold only paths of regular files, each at most once.
C13_OnlyRegularFilesOnce ==
  /\ OnlyFiles(fileList)
  /\ NoDuplicates(fileList)
  /\ OnlyFiles(allFiles)
  /\ NoDuplicates(allFiles)
  /\ commonPc = "scanning" => NoDuplicates(allFiles \o fileList)

\* an entry that is neither a file nor a directory lies beside a directory
\* whose file is found; the scan ends below the cap without the entry
C13_Witness ==
  /\ Returned
  /\ commonPc = "idle"
  /\ scanRoot = FsTop
  /\ fsKind[<<"a.txt">>] = "other"
  /\ <<"docs", "b.txt">> \in FilesReturned
  /\ <<"a.txt">> \notin FilesReturned
  /\ Len(fileList) < maxFiles

\* no skip-listed directory lies between the root of the scan and the file
ReachableUnskipped(f) ==
  \A k \in (Len(scanRoot) + 1)..(Len(f) - 1) : f[k] \notin SkipListed

\* the regular files the scan is expected to find
Qualifying ==
  {f \in DOMAIN fsKind :
     /\ fsKind[f] = "file"
     /\ Len(f) > Len(scanRoot)
     /\ IsPrefix(scanRoot, f)
     /\ Level(Parent(f)) < maxDepth
     /\ ReachableUnskipped(f)}

\* C18: when no listing fails and fewer than maxFiles files qualify, the
\* scan returns exactly the regular files in directories fewer than maxDepth
\* levels below the root that are reachable without passing through a
\* skip-listed directory.
C18_ExactlyTheQualifyingFiles ==
  (Returned /\ FailedDirs = {} /\ Cardinality(Qualifying) < maxFiles) =>
    FilesReturned = Qualifying

\* of four files, one is too deep and one is inside node_modules: the other
\* two are returned
C18_Witness ==
  /\ Returned
  /\ commonPc = "idle"
  /\ scanRoot = FsTop
  /\ maxDepth = 2
  /\ maxFiles = 3
  /\ FailedDirs = {}
  /\ \A p \in {<<"a.txt">>, <<"docs", "b.txt">>, <<"docs", "deep", "c.txt">>,
               <<"node_modules", "m.js">>} : fsKind[p] = "file"
  /\ FilesReturned = {<<"a.txt">>, <<"docs", "b.txt">>}

\* the scanner that was started is over
Finished ==
  \/ commonPc = "idle" /\ Returned
  \/ /\ CommonDone
     /\ outcome \in {"No accessible directories found",
                     "No files found in any accessible directories", "returned"}

\* the number of times scanDirectory was started on a root
VisitsOf(root) ==
  Cardinality({k \in 1..Len(progress) :
                 progress[k].kind = "completed" /\ progress[k].path = root})
  + (IF commonPc = "scanning" /\ scanRoot = root THEN 1 ELSE 0)

EachRootAtMostOnce ==
  commonPc # "idle" =>
    \A i \in 1..Len(commonDirs) : VisitsOf(commonDirs[i]) <= 1

\* C19: scanDirectory terminates on every tree, and scanCommonDirectories
\* terminates with a list or one of its two errors after visiting each
\* existing root at most once.
C19_ScannersTerminate == <>Finished /\ []EachRootAtMostOnce

\* three roots were visited, one of them seven levels deep, and the call
\* returned
C19_Witness ==
  /\ CommonDone
  /\ outcome = "returned"
  /\ Len(existingDirs) = 3
  /\ rootIndex = 3
  /\ \A j \in 1..3 : VisitsOf(existingDirs[j]) = 1
  /\ \E k \in 1..Len(listed) : listed[k].depth = 6

-----------------------------------------------------------------------------
(* Paths as strings: what scanDirectory builds with path.join and what the  *)
(* player types                                                            *)

\* the characters of an entry's name
Chars(name) ==
  CASE name = "home" -> <<"h", "o", "m", "e">>
    [] name = "Documents" -> <<"D", "o", "c", "u", "m", "e", "n", "t", "s">>
    [] name = "Desktop" -> <<"D", "e", "s", "k", "t", "o", "p">>
    [] name = "Downloads" -> <<"D", "o", "w", "n", "l", "o", "a", "d", "s">>
    [] name = "Pictures" -> <<"P", "i", "c", "t", "u", "r", "e", "s">>
    [] name = "Music" -> <<"M", "u", "s", "i", "c">>
    [] name = "Videos" -> <<"V", "i", "d", "e", "o", "s">>
    [] name = "a.txt" -> <<"a", ".", "t", "x", "t">>
    [] name = "b.txt" -> <<"b", ".", "t", "x", "t">>
    [] name = "y.txt" -> <<"y", ".", "t", "x", "t">>
    [] name = "z.txt" -> <<"z", ".", "t", "x", "t">>
    [] name = "sub" -> <<"s", "u", "b">>
    [] name = ".git" -> <<".", "g", "i", "t">>
    [] name = "HEAD" -> <<"H", "E", "A", "D">>
    [] name = "l1" -> <<"l", "1">>
    [] name = "l2" -> <<"l", "2">>
    [] name = "l3" -> <<"l", "3">>
    [] name = "l4" -> <<"l", "4">>
    [] name = "l5" -> <<"l", "5">>
    [] name = "l6" -> <<"l", "6">>
    [] name = "l7" -> <<"l", "7">>

\* the absolute path string of an entry
RECURSIVE PathString(_)
PathString(p) ==
  IF Len(p) = 0 THEN <<>>
  ELSE PathString(SubSeq(p, 1, Len(p) - 1)) \o <<Sep>> \o Chars(p[Len(p)])

PathStrings(list) == [i \in 1..Len(list) |-> PathString(list[i])]

\* the names of the entries a home directory may hold
KnownNames == UNION {{p[i] : i \in 1..Len(p)} : p \in HomePaths}

\* the entry name spelled by a segment, "?" when no entry has that name
NameOf(segment) ==
  IF \E n \in KnownNames : Chars(n) = segment
    THEN CHOOSE n \in KnownNames : Chars(n) = segment
  ELSE "?"

\* the entry an absolute path string leads to: the file system resolves
\* ".", ".." and repeated separators
FsPath(str) ==
  LET parts == SelectSeq(Split(normalize(str)), LAMBDA part : Len(part) > 0)
  IN [i \in 1..Len(parts) |-> NameOf(parts[i])]

IsAbsolute(str) == Len(str) > 0 /\ str[1] = Sep

\* fs.existsSync(guessPath); a relative path names nothing in the working
\* directory
ExistsString(str) == IsAbsolute(str) /\ existsSync(FsPath(str))

\* fs.statSync(guessPath).isFile()
IsFileString(str) == IsAbsolute(str) /\ isFile(FsPath(str))

\* String.prototype.trim
RECURSIVE trim(_)
trim(str) ==
  IF Len(str) = 0 THEN str
  ELSE IF str[1] = " " THEN trim(Tail(str))
  ELSE IF str[Len(str)] = " " THEN trim(SubSeq(str, 1, Len(str) - 1))
  ELSE str

-----------------------------------------------------------------------------
(* Main process: the ipcMain handlers *)

\* fields a handler's return value may carry; "none" and null stand for an
\* absent field
NoResult ==
  [valid |-> FALSE, correct |-> FALSE, comparison |-> "none", distanceInfo |-> NoDistance,
   error |-> "none", success |-> FALSE, value |-> null, fileCount |-> 0]

\* the value an invoke resolves with
ReplyTo(request, result) ==
  [channel |-> request.channel, fn |-> request.fn, guessPath |-> request.guessPath,
   result |-> result]

\* mainWindow.webContents.send(channel, {fileCount})
Event(channel, fileCount) ==
  [channel |-> channel, fn |-> "listener", guessPath |-> <<>>,
   result |-> [NoResult EXCEPT !.fileCount = fileCount]]

Handling(channel) == toMain # <<>> /\ Head(toMain).channel = channel

\* scanCommonDirectories() is called: a fresh invocation, no callback
CallScanCommonDirectories ==
  /\ existingDirs' = <<>>
  /\ rootIndex' = 0
  /\ allFiles' = <<>>
  /\ commonPc' = "start"
  /\ outcome' = "none"
  /\ scanRoot' = <<>>
  /\ maxDepth' = 0
  /\ maxFiles' = 0
  /\ stack' = <<>>
  /\ fileList' = <<>>
  /\ scanStatus' = "idle"
  /\ listed' = <<>>
  /\ progress' = <<>>

\* mutant: a scan that throws never settles
ScanSettled_OnlyOnSuccess == commonPc = "done" /\ outcome = "returned"

\* the awaited scanCommonDirectories call is over
ScanSettled == commonPc = "done"

\* lines 301-307: scanning-started is sent, the scan is started and awaited.
\* One scan runs at a time: a request that needs a scan waits for the
\* handler that is scanning.
MainInitializeGameStart ==
  /\ Handling("initialize-game")
  /\ handler = NoHandler
  /\ handler' = Head(toMain)
  /\ toMain' = Tail(toMain)
  /\ fromMain' = Append(fromMain, Event("scanning-started", 0))
  /\ CallScanCommonDirectories
  /\ UNCHANGED <<mainFileList, targetFile>>
  /\ UNCHANGED <<cmpVars, fsVars, pureVars, rendererVars>>

\* mutant: a failed initialization forgets the list and the target
InitializeGameFailure_ClearsSession(message) ==
  /\ mainFileList' = <<>>
  /\ targetFile' = null
  /\ fromMain' = fromMain \o <<Event("scanning-complete", 0),
                               ReplyTo(handler, [NoResult EXCEPT !.error = message])>>

\* lines 325-333: the catch of initialize-game
InitializeGameFailure(message) ==
  /\ UNCHANGED <<mainFileList, targetFile>>
  /\ fromMain' = fromMain \o <<Event("scanning-complete", 0),
                               ReplyTo(handler, [NoResult EXCEPT !.error = message])>>

\* lines 307-333: the scan settles; on success fileList is assigned, a target
\* is selected, scanning-complete is sent and success is returned
MainInitializeGameFinish ==
  /\ handler.channel = "initialize-game"
  /\ ScanSettled
  /\ \/ /\ outcome = "returned"
        /\ Len(allFiles) # 0
        /\ \E r \in 0..(RandomSteps - 1) :
             LET list == PathStrings(allFiles)
             IN /\ mainFileList' = list
                /\ targetFile' = selectTargetFile(list, r).value
                /\ fromMain' = fromMain \o
                     <<Event("scanning-complete", Len(list)),
                       ReplyTo(handler, [NoResult EXCEPT !.success = TRUE,
                                                         !.fileCount = Len(list)])>>
     \/ /\ outcome = "returned"
        /\ Len(allFiles) = 0
        /\ mainFileList' = <<>>
        /\ UNCHANGED targetFile
        /\ fromMain' = fromMain \o
             <<Event("scanning-complete", 0),
               ReplyTo(handler, [NoResult EXCEPT !.error =
                  "No files found. Please ensure you have accessible files."])>>
     \/ /\ outcome # "returned"
        /\ InitializeGameFailure(outcome)
  /\ handler' = NoHandler
  /\ commonPc' = "idle"
  /\ UNCHANGED toMain
  /\ UNCHANGED <<existingDirs, rootIndex, allFiles, outcome>>
  /\ UNCHANGED <<cmpVars, fsVars, scanVars, progress, pureVars, rendererVars>>

\* mutant: the target is handed out once
MainGetTargetFile_Consumes ==
  /\ Handling("get-target-file")
  /\ toMain' = Tail(toMain)
  /\ fromMain' = Append(fromMain, ReplyTo(Head(toMain), [NoResult EXCEPT !.value = targetFile]))
  /\ targetFile' = null
  /\ UNCHANGED <<mainFileList, handler>>
  /\ UNCHANGED <<cmpVars, fsVars, scanVars, progress, commonVars, pureVars, rendererVars>>

\* lines 337-339
MainGetTargetFile ==
  /\ Handling("get-target-file")
  /\ toMain' = Tail(toMain)
  /\ fromMain' = Append(fromMain, ReplyTo(Head(toMain), [NoResult EXCEPT !.value = targetFile]))
  /\ UNCHANGED mainVars
  /\ UNCHANGED <<cmpVars, fsVars, scanVars, progress, commonVars, pureVars, rendererVars>>

\* mutant: no validation of the guessed path
ValidationError_None(guessPath) == "none"

\* lines 346-361: the error of a guess that is not an existing regular file
ValidationError(guessPath) ==
  IF ~ExistsString(guessPath) THEN "File does not exist"
  ELSE IF ~IsFileString(guessPath) THEN "Path is not a file"
  ELSE "none"

\* lines 345-389; with targetFile still null path.dirname(null) throws a
\* TypeError inside calculateDistance, which the catch turns into an error
CheckGuessResult(guessPath, previousGuess) ==
  IF ValidationError(guessPath) # "none"
    THEN [NoResult EXCEPT !.error = ValidationError(guessPath)]
  ELSE IF guessPath = targetFile
    THEN [NoResult EXCEPT !.valid = TRUE, !.correct = TRUE]
  ELSE IF targetFile = null
    THEN [NoResult EXCEPT !.error = "TypeError"]
  ELSE [NoResult EXCEPT !.valid = TRUE,
                        !.comparison = compareGuesses(guessPath, previousGuess, targetFile),
                        !.distanceInfo = calculateDistance(guessPath, targetFile)]

\* lines 342-390: the handler has no await of its own and runs in one step
MainCheckGuess ==
  /\ Handling("check-guess")
  /\ LET request == Head(toMain)
         result == CheckGuessResult(request.guessPath, request.previousGuessPath)
     IN /\ fromMain' = Append(fromMain, ReplyTo(request, result))
  /\ toMain' = Tail(toMain)
  /\ UNCHANGED mainVars
  /\ UNCHANGED <<cmpVars, fsVars, scanVars, progress, commonVars, pureVars, rendererVars>>

\* the file the player picks in the dialog, when it exists
DialogFiles ==
  {PathString(p) : p \in {q \in {<<"home", "Documents", "a.txt">>} : isFile(q)}}

\* lines 392-409: the dialog is cancelled or a file is picked
MainBrowseFile ==
  /\ Handling("browse-file")
  /\ toMain' = Tail(toMain)
  /\ \/ fromMain' = Append(fromMain, ReplyTo(Head(toMain), NoResult))
     \/ \E filePath \in DialogFiles :
          fromMain' = Append(fromMain, ReplyTo(Head(toMain),
                               [NoResult EXCEPT !.success = TRUE, !.value = filePath]))
  /\ UNCHANGED mainVars
  /\ UNCHANGED <<cmpVars, fsVars, scanVars, progress, commonVars, pureVars, rendererVars>>

\* lines 414-418: a new target from the list already scanned
MainResetGameSelect ==
  /\ Handling("reset-game")
  /\ Len(mainFileList) > 0
  /\ \E r \in 0..(RandomSteps - 1) :
       targetFile' = selectTargetFile(mainFileList, r).value
  /\ toMain' = Tail(toMain)
  /\ fromMain' = Append(fromMain, ReplyTo(Head(toMain), [NoResult EXCEPT !.success = TRUE]))
  /\ UNCHANGED <<mainFileList, handler>>
  /\ UNCHANGED <<cmpVars, fsVars, scanVars, progress, commonVars, pureVars, rendererVars>>

\* lines 419-421: the list is empty, the scan is started and awaited
MainResetGameRescan ==
  /\ Handling("reset-game")
  /\ Len(mainFileList) = 0
  /\ handler = NoHandler
  /\ handler' = Head(toMain)
  /\ toMain' = Tail(toMain)
  /\ CallScanCommonDirectories
  /\ UNCHANGED <<mainFileList, targetFile, fromMain>>
  /\ UNCHANGED <<cmpVars, fsVars, pureVars, rendererVars>>

\* lines 421-439: the rescan settles
MainResetGameFinish ==
  /\ handler.channel = "reset-game"
  /\ ScanSettled
  /\ \/ /\ outcome = "returned"
        /\ Len(allFiles) > 0
        /\ \E r \in 0..(RandomSteps - 1) :
             LET list == PathStrings(allFiles)
             IN /\ mainFileList' = list
                /\ targetFile' = selectTargetFile(list, r).value
        /\ fromMain' = Append(fromMain, ReplyTo(handler, [NoResult EXCEPT !.success = TRUE]))
     \/ /\ outcome = "returned"
        /\ Len(allFiles) = 0
        /\ mainFileList' = <<>>
        /\ UNCHANGED targetFile
        /\ fromMain' = Append(fromMain,
                              ReplyTo(handler, [NoResult EXCEPT !.error = "No files available"]))
     \/ /\ outcome # "returned"
        /\ UNCHANGED <<mainFileList, targetFile>>
        /\ fromMain' = Append(fromMain, ReplyTo(handler, [NoResult EXCEPT !.error = outcome]))
  /\ handler' = NoHandler
  /\ commonPc' = "idle"
  /\ UNCHANGED toMain
  /\ UNCHANGED <<existingDirs, rootIndex, allFiles, outcome>>
  /\ UNCHANGED <<cmpVars, fsVars, scanVars, progress, pureVars, rendererVars>>

-----------------------------------------------------------------------------
(* The home directories of a session and the paths the player enters *)

Home(documents, desktop, downloads) ==
  [i \in 1..Len(commonDirs) |->
     IF i = 1 THEN documents ELSE IF i = 2 THEN desktop
     ELSE IF i = 3 THEN downloads ELSE "missing"]

\* a Documents with two files; a deep Documents, a Desktop with two files
\* that reach the cap and an empty Downloads; a Documents that cannot be
\* listed; no directory at all
GameHomes ==
  {Home("two", "missing", "missing"), Home("deep", "two", "empty"),
   Home("locked", "missing", "missing"), Home("missing", "missing", "missing")}

FileA == PathString(<<"home", "Documents", "a.txt">>)

DirSub == PathString(<<"home", "Documents", "sub">>)

\* a path that names nothing
Ghost == <<Sep, "x">>

Blank == <<" ">>

TypedValues == {FileA, DirSub, Ghost, Blank}

InitSession ==
  /\ GameIdle
  /\ PureIdle
  /\ CompareIdle
  /\ CommonIdle
  /\ \E sh \in GameHomes :
       /\ fsKind = HomeTree(sh)
       /\ unreadable = {commonDirs[i] : i \in {j \in 1..Len(commonDirs) : sh[j] = "locked"}}
  /\ scanRoot = <<>>
  /\ maxDepth = 0
  /\ maxFiles = 0
  /\ stack = <<>>
  /\ fileList = <<>>
  /\ scanStatus = "idle"
  /\ listed = <<>>
  /\ progress = <<>>

-----------------------------------------------------------------------------
(* The handlers under any sequence of invocations *)

ClientRequests ==
  {Request(channel, "client", <<>>, null) :
     channel \in {"initialize-game", "get-target-file", "browse-file", "reset-game"}}
  \cup {Request("check-guess", "client", guessPath, previousGuess) :
          guessPath \in {FileA, DirSub, Ghost}, previousGuess \in {null, FileA}}

\* ipcRenderer.invoke(channel, ...) by any client code, which has received
\* every earlier reply and message
ClientInvoke ==
  /\ toMain = <<>>
  /\ fromMain = <<>>
  /\ \E request \in ClientRequests : toMain' = Append(toMain, request)
  /\ UNCHANGED fromMain
  /\ UNCHANGED <<cmpVars, fsVars, scanVars, progress, commonVars, pureVars>>
  /\ UNCHANGED <<mainVars, rendererVars>>

\* the client receives a reply or a message
ClientReceive ==
  /\ fromMain # <<>>
  /\ fromMain' = Tail(fromMain)
  /\ UNCHANGED toMain
  /\ UNCHANGED <<cmpVars, fsVars, scanVars, progress, commonVars, pureVars>>
  /\ UNCHANGED <<mainVars, rendererVars>>

\* the handlers the renderer invokes
MainStep ==
  \/ MainInitializeGameStart
  \/ MainInitializeGameFinish
  \/ MainGetTargetFile
  \/ MainCheckGuess
  \/ MainBrowseFile

ResetGameStep ==
  \/ MainResetGameSelect
  \/ MainResetGameRescan
  \/ MainResetGameFinish

NextMain ==
  \/ ClientInvoke
  \/ ClientReceive
  \/ MainStep
  \/ ResetGameStep
  \/ ScanStep
  \/ CommonStep

SpecMain == InitSession /\ [][NextMain]_vars

\* a handler of the channel returned in this step
HandlerReturns(channel) ==
  /\ Len(fromMain') > Len(fromMain)
  /\ fromMain'[Len(fromMain')].channel = channel

\* a handler of the channel returned success in this step, and the target
\* is a path of the session's list
TargetSelectedBy(channel) ==
  /\ HandlerReturns(channel)
  /\ fromMain'[Len(fromMain')].result.success
  /\ \E i \in 1..Len(mainFileList') : targetFile' = mainFileList'[i]

\* C14: targetFile and fileList change only in a step in which initialize-game
\* or reset-game returns success, the target then being one path of the
\* list; a step in which check-guess, get-target-file or browse-file returns
\* leaves both unchanged.
C14_TargetHeldBetweenGames ==
  [][/\ (targetFile' # targetFile \/ mainFileList' # mainFileList)
          => (TargetSelectedBy("initialize-game") \/ TargetSelectedBy("reset-game"))
     /\ (\E channel \in {"check-guess", "get-target-file", "browse-file"} :
           HandlerReturns(channel))
          => UNCHANGED <<targetFile, mainFileList>>]_vars

\* while a later initialize-game is scanning, a wrong guess is checked
\* against the target of the game before
C14_Witness ==
  /\ targetFile # null
  /\ handler.channel = "initialize-game"
  /\ commonPc = "scanning"
  /\ Len(fromMain) = 1
  /\ fromMain[1].channel = "check-guess"
  /\ fromMain[1].result.valid
  /\ fromMain[1].result.comparison = "same"

-----------------------------------------------------------------------------
(* renderer.js: the window.  The loading overlay covers the window: the    *)
(* player types, submits, browses and restarts only while it is hidden.    *)
(* The restart buttons belong to the win and lose messages and are clicked *)
(* while one of them is shown.  The guess is submitted by the button or by *)
(* Enter in the input.  The file dialog is modal: while handleBrowse        *)
(* awaits it the player does nothing else in the window.                   *)

\* guesses and browse dialogs awaiting their reply at a time
MaxInFlight == 2

InvokedByPlayer(message) ==
  message.channel \in {"check-guess", "browse-file"}

InFlight ==
  Len(SelectSeq(toMain, InvokedByPlayer)) + Len(SelectSeq(fromMain, InvokedByPlayer))

Browsing(message) == message.channel = "browse-file"

\* the overlay is hidden and no file dialog is awaited: the player can reach
\* the controls
Playable ==
  /\ ui.loaded
  /\ ~ui.loading
  /\ Len(SelectSeq(toMain, Browsing)) + Len(SelectSeq(fromMain, Browsing)) = 0

Received(channel, fn) ==
  /\ fromMain # <<>>
  /\ Head(fromMain).channel = channel
  /\ Head(fromMain).fn = fn

\* lines 32-36: initializeGame up to its await, from a window showing shown
InitializeGameCall(shown) ==
  /\ ui' = [shown EXCEPT !.loaded = TRUE, !.loading = TRUE, !.guessBtnDisabled = TRUE]
  /\ gameState' = [gameState EXCEPT !.gameActive = FALSE]
  /\ toMain' = Append(toMain, Request("initialize-game", "initializeGame", <<>>, null))

\* lines 280-282
DOMContentLoaded ==
  /\ ~ui.loaded
  /\ InitializeGameCall(ui)
  /\ UNCHANGED <<fileInput, fromMain>>
  /\ UNCHANGED <<cmpVars, fsVars, scanVars, progress, commonVars, pureVars, mainVars>>

\* lines 181-191 and 32-36: resetGame, then initializeGame up to its await
ClickRestart ==
  /\ Playable
  /\ ui.win \/ ui.lose
  /\ InitializeGameCall([ui EXCEPT !.win = FALSE, !.lose = FALSE, !.feedback = "",
                                   !.fileInputDisabled = FALSE,
                                   !.browseBtnDisabled = FALSE])
  /\ fileInput' = <<>>
  /\ UNCHANGED fromMain
  /\ UNCHANGED <<cmpVars, fsVars, scanVars, progress, commonVars, pureVars, mainVars>>

\* lines 213-218: the scanning-started listener shows the overlay
OnScanningStarted ==
  /\ Received("scanning-started", "listener")
  /\ fromMain' = Tail(fromMain)
  /\ ui' = [ui EXCEPT !.loading = TRUE]
  /\ UNCHANGED <<gameState, fileInput, toMain>>
  /\ UNCHANGED <<cmpVars, fsVars, scanVars, progress, commonVars, pureVars, mainVars>>

\* lines 251-255: the scanning-complete listener updates the progress display
OnScanningComplete ==
  /\ Received("scanning-complete", "listener")
  /\ fromMain' = Tail(fromMain)
  /\ UNCHANGED <<gameState, fileInput, ui, toMain>>
  /\ UNCHANGED <<cmpVars, fsVars, scanVars, progress, commonVars, pureVars, mainVars>>

\* lines 36-51: initializeGame resumes with the result; on success it starts
\* the game and awaits get-target-file
InitializeGameResumed ==
  /\ Received("initialize-game", "initializeGame")
  /\ fromMain' = Tail(fromMain)
  /\ IF Head(fromMain).result.success
       THEN /\ gameState' = [gameState EXCEPT !.gameActive = TRUE,
                                              !.guessesRemaining = MaxGuesses,
                                              !.previousGuess = null,
                                              !.guesses = <<>>]
            /\ toMain' = Append(toMain, Request("get-target-file", "initializeGame", <<>>, null))
            /\ UNCHANGED ui
     ELSE /\ ui' = [ui EXCEPT !.loading = FALSE, !.alert = Head(fromMain).result.error]
          /\ UNCHANGED <<gameState, toMain>>
  /\ UNCHANGED fileInput
  /\ UNCHANGED <<cmpVars, fsVars, scanVars, progress, commonVars, pureVars, mainVars>>

\* lines 43-47: the target is stored, the overlay hidden, the button enabled
InitializeGameTarget ==
  /\ Received("get-target-file", "initializeGame")
  /\ fromMain' = Tail(fromMain)
  /\ gameState' = [gameState EXCEPT !.targetFile = Head(fromMain).result.value]
  /\ ui' = [ui EXCEPT !.loading = FALSE, !.guessBtnDisabled = FALSE]
  /\ UNCHANGED <<fileInput, toMain>>
  /\ UNCHANGED <<cmpVars, fsVars, scanVars, progress, commonVars, pureVars, mainVars>>

\* the player types or pastes a path
TypePath ==
  /\ Playable
  /\ ~ui.fileInputDisabled
  /\ \E value \in TypedValues \ {fileInput} : fileInput' = value
  /\ UNCHANGED <<gameState, ui, ipcVars>>
  /\ UNCHANGED <<cmpVars, fsVars, scanVars, progress, commonVars, pureVars, mainVars>>

\* the guess button can be clicked, or Enter pressed in the input
CanSubmit ==
  /\ Playable
  /\ ~ui.guessBtnDisabled \/ ~ui.fileInputDisabled

\* lines 96-109: handleGuess up to its await.  It returns at once when the
\* game is not active, and after a feedback when the trimmed input is empty.
HandleGuess ==
  /\ CanSubmit
  /\ InFlight < MaxInFlight
  /\ IF ~gameState.gameActive
       THEN UNCHANGED <<rendererVars, toMain>>
     ELSE IF trim(fileInput) = <<>>
       THEN /\ ui' = [ui EXCEPT !.feedback = "Please enter a file path"]
            /\ UNCHANGED <<gameState, fileInput, toMain>>
     ELSE /\ toMain' = Append(toMain, Request("check-guess", "handleGuess",
                                              trim(fileInput), gameState.previousGuess))
          /\ UNCHANGED rendererVars
  /\ UNCHANGED fromMain
  /\ UNCHANGED <<cmpVars, fsVars, scanVars, progress, commonVars, pureVars, mainVars>>

\* line 112: 'Error: ' + result.error
ErrorFeedback(error) ==
  CASE error = "File does not exist" -> "Error: File does not exist"
    [] error = "Path is not a file" -> "Error: Path is not a file"
    [] OTHER -> "Error"

\* lines 137-146
ComparisonFeedback(verdict) ==
  CASE verdict = "first" -> "First guess! Keep going..."
    [] verdict = "closer" -> "Closer!"
    [] verdict = "farther" -> "Farther!"
    [] OTHER -> "Same distance"

\* lines 129-134
Recorded(message) ==
  [gameState EXCEPT !.guessesRemaining = @ - 1,
                    !.guesses = Append(@, [path |-> message.guessPath,
                                           feedback |-> message.result.comparison]),
                    !.previousGuess = message.guessPath]

\* lines 109-162: handleGuess resumes with the result of check-guess; out of
\* guesses, it ends the game and awaits get-target-file
HandleGuessResumed ==
  /\ Received("check-guess", "handleGuess")
  /\ fromMain' = Tail(fromMain)
  /\ LET message == Head(fromMain)
     IN IF ~message.result.valid
          THEN /\ ui' = [ui EXCEPT !.feedback = ErrorFeedback(message.result.error)]
               /\ UNCHANGED <<gameState, fileInput, toMain>>
        ELSE IF message.result.correct
          THEN /\ gameState' = [gameState EXCEPT !.gameActive = FALSE,
                                                 !.guessesRemaining = 0]
               /\ ui' = [ui EXCEPT !.win = TRUE, !.guessBtnDisabled = TRUE,
                                   !.fileInputDisabled = TRUE,
                                   !.browseBtnDisabled = TRUE,
                                   !.feedback = "You found it!"]
               /\ UNCHANGED <<fileInput, toMain>>
        ELSE IF Recorded(message).guessesRemaining <= 0
          THEN /\ gameState' = [Recorded(message) EXCEPT !.gameActive = FALSE]
               /\ ui' = [ui EXCEPT !.feedback = ComparisonFeedback(message.result.comparison)]
               /\ toMain' = Append(toMain,
                                   Request("get-target-file", "handleGuess", <<>>, null))
               /\ UNCHANGED fileInput
        ELSE /\ gameState' = Recorded(message)
             /\ ui' = [ui EXCEPT !.feedback = ComparisonFeedback(message.result.comparison)]
             /\ fileInput' = <<>>
             /\ UNCHANGED toMain
  /\ UNCHANGED <<cmpVars, fsVars, scanVars, progress, commonVars, pureVars, mainVars>>

\* lines 153-162: the target is revealed with the lose message
HandleGuessReveal ==
  /\ Received("get-target-file", "handleGuess")
  /\ fromMain' = Tail(fromMain)
  /\ ui' = [ui EXCEPT !.targetReveal = Head(fromMain).result.value, !.lose = TRUE,
                      !.guessBtnDisabled = TRUE, !.fileInputDisabled = TRUE,
                      !.browseBtnDisabled = TRUE]
  /\ fileInput' = <<>>
  /\ UNCHANGED <<gameState, toMain>>
  /\ UNCHANGED <<cmpVars, fsVars, scanVars, progress, commonVars, pureVars, mainVars>>

\* lines 172-173: handleBrowse up to its await
HandleBrowse ==
  /\ Playable
  /\ ~ui.browseBtnDisabled
  /\ InFlight < MaxInFlight
  /\ toMain' = Append(toMain, Request("browse-file", "handleBrowse", <<>>, null))
  /\ UNCHANGED <<rendererVars, fromMain>>
  /\ UNCHANGED <<cmpVars, fsVars, scanVars, progress, commonVars, pureVars, mainVars>>

\* lines 173-177: the picked path is put into the input
HandleBrowseResumed ==
  /\ Received("browse-file", "handleBrowse")
  /\ fromMain' = Tail(fromMain)
  /\ fileInput' = IF Head(fromMain).result.success THEN Head(fromMain).result.value
                  ELSE fileInput
  /\ UNCHANGED <<gameState, ui, toMain>>
  /\ UNCHANGED <<cmpVars, fsVars, scanVars, progress, commonVars, pureVars, mainVars>>

RendererStep ==
  \/ DOMContentLoaded
  \/ ClickRestart
  \/ OnScanningStarted
  \/ OnScanningComplete
  \/ InitializeGameResumed
  \/ InitializeGameTarget
  \/ TypePath
  \/ HandleGuess
  \/ HandleGuessResumed
  \/ HandleGuessReveal
  \/ HandleBrowse
  \/ HandleBrowseResumed

\* the well-known directories disappear (the profile is moved, a drive is
\* unmounted) after a scan that found files, while no scan is running and
\* no message is on its way: fs.existsSync of line 205 finds none of them in
\* the next scan
NoHome == Home("missing", "missing", "missing")

HomeRemoved ==
  /\ commonPc = "idle"
  /\ handler = NoHandler
  /\ mainFileList # <<>>
  /\ toMain = <<>>
  /\ fromMain = <<>>
  /\ fsKind # HomeTree(NoHome)
  /\ fsKind' = HomeTree(NoHome)
  /\ unreadable' = {}
  /\ UNCHANGED <<cmpVars, scanVars, progress, commonVars, pureVars, gameVars>>

NextGame ==
  \/ RendererStep
  \/ MainStep
  \/ ScanStep
  \/ CommonStep
  \/ HomeRemoved

SpecGame == InitSession /\ [][NextGame]_vars

-----------------------------------------------------------------------------
(* Properties of a game *)

\* C15 as claimed: in the guess history the record at position 0 carries
\* 'first' and no later record does.
C15_FirstExactlyAtPositionZero ==
  \A i \in 1..Len(gameState.guesses) :
    gameState.guesses[i].feedback = "first" <=> i = 1

\* C16 as claimed: guessesRemaining stays between 0 and 10 and at most 10
\* guesses are recorded.
C16_GuessesLimited ==
  /\ gameState.guessesRemaining \in 0..MaxGuesses
  /\ Len(gameState.guesses) <= MaxGuesses

\* the game has not ended by a correct guess or by running out of guesses
GameInProgress ==
  /\ gameState.gameActive
  /\ gameState.guessesRemaining > 0
  /\ ~ui.win
  /\ ~ui.lose

\* C17 as claimed: while the game is in progress the renderer holds no copy
\* of the target path and no get-target-file reply carrying it is on its way.
C17_TargetSecretUntilGameEnds ==
  GameInProgress =>
    /\ gameState.targetFile # targetFile
    /\ ui.targetReveal # targetFile
    /\ \A k \in 1..Len(fromMain) :
         fromMain[k].channel = "get-target-file" => fromMain[k].result.value # targetFile

\* the entry the string leads to is not a regular file
NotARegularFile(str) == ~IsAbsolute(str) \/ KindOf(FsPath(str)) # "file"

\* check-guess returns for the request at the head of the queue
CheckGuessReturns ==
  /\ Handling("check-guess")
  /\ toMain' = Tail(toMain)
  /\ Len(fromMain') = Len(fromMain) + 1

\* handleGuess resumes with the reply at the head of the queue
HandleGuessResumes ==
  /\ Received("check-guess", "handleGuess")
  /\ fromMain' = Tail(fromMain)

\* C20: check-guess for a path that does not exist or is not a regular file
\* returns valid:false with one of the two validation errors and no verdict
\* of compareGuesses; handleGuess, resuming with that reply, leaves
\* guessesRemaining, previousGuess, the guess history and gameActive as they
\* were and sends nothing.
C20_InvalidGuessConsumesNothing ==
  [][/\ (CheckGuessReturns /\ NotARegularFile(Head(toMain).guessPath)) =>
          LET result == fromMain'[Len(fromMain')].result
          IN /\ ~result.valid
             /\ ~result.correct
             /\ result.comparison = "none"
             /\ result.distanceInfo = NoDistance
             /\ result.error \in {"File does not exist", "Path is not a file"}
             /\ result.error = "File does not exist"
                  <=> (~IsAbsolute(Head(toMain).guessPath)
                       \/ KindOf(FsPath(Head(toMain).guessPath)) = "none")
     /\ (HandleGuessResumes /\ NotARegularFile(Head(fromMain).guessPath)) =>
          /\ gameState' = gameState
          /\ toMain' = toMain
          /\ fileInput' = fileInput]_vars

\* after one wrong guess a directory was submitted: the error is shown, nine
\* guesses remain and the game goes on
C20_Witness ==
  /\ ui.feedback = "Error: Path is not a file"
  /\ gameState.gameActive
  /\ gameState.guessesRemaining = MaxGuesses - 1
  /\ Len(gameState.guesses) = 1
  /\ gameState.previousGuess = FileA
  /\ fileInput = DirSub
  /\ toMain = <<>>
  /\ fromMain = <<>>

\* the awaited scanCommonDirectories call of initialize-game threw, and the
\* handler returns in this step
InitializeGameThrows ==
  /\ handler.channel = "initialize-game"
  /\ ScanSettled
  /\ outcome # "returned"
  /\ HandlerReturns("initialize-game")

\* initializeGame resumes with the reply at the head of the queue
InitializeGameResumes ==
  /\ Received("initialize-game", "initializeGame")
  /\ fromMain' = Tail(fromMain)

\* C21: when the scan of initialize-game throws, the handler sends
\* scanning-complete and returns success:false with the message of the
\* error, leaving fileList and targetFile of the main process as they were;
\* initializeGame, resuming with a failure, leaves gameActive false, and
\* gameActive becomes true only when initializeGame resumes with a success.
C21_FailedInitializationKeepsSession ==
  [][/\ InitializeGameThrows =>
          LET result == fromMain'[Len(fromMain')].result
          IN /\ ~result.success
             /\ result.error = outcome
             /\ result.error \in {"No accessible directories found",
                                  "No files found in any accessible directories"}
             /\ UNCHANGED <<mainFileList, targetFile>>
     /\ (InitializeGameResumes /\ ~Head(fromMain).result.success) =>
          /\ ~gameState.gameActive
          /\ ~gameState'.gameActive
     /\ (gameState'.gameActive /\ ~gameState.gameActive) =>
          /\ InitializeGameResumes
          /\ Head(fromMain).result.success]_vars

\* a game was won, the directories disappeared and the restart failed: the
\* main process still holds the list and the target of the game before,
\* and the renderer shows the alert with no game active
C21_Witness ==
  /\ ui.alert = "No accessible directories found"
  /\ ~ui.loading
  /\ ~gameState.gameActive
  /\ Len(mainFileList) = 2
  /\ targetFile \in {mainFileList[i] : i \in 1..Len(mainFileList)}
  /\ fromMain = <<>>
  /\ toMain = <<>>

-----------------------------------------------------------------------------
(* The progress callback of a direct scanDirectory call *)

\* a root with a.txt and z.txt, docs with b.txt and c.txt, docs/deep with
\* d.txt, e.txt and f.txt; a.txt, z.txt and f.txt may be missing
BatchTree(a, z, f) ==
  [p \in {FsTop, <<"a.txt">>, <<"z.txt">>, <<"docs">>, <<"docs", "b.txt">>,
          <<"docs", "c.txt">>, <<"docs", "deep">>, <<"docs", "deep", "d.txt">>,
          <<"docs", "deep", "e.txt">>, <<"docs", "deep", "f.txt">>}
   |-> CASE p \in {FsTop, <<"docs">>, <<"docs", "deep">>} -> "dir"
         [] p = <<"a.txt">> -> a
         [] p = <<"z.txt">> -> z
         [] p = <<"docs", "deep", "f.txt">> -> f
         [] OTHER -> "file"]

InitBatch ==
  /\ GameIdle
  /\ PureIdle
  /\ CompareIdle
  /\ CommonIdle
  /\ \E a, z, f \in {"file", "none"} : fsKind = BatchTree(a, z, f)
  /\ unreadable = {}
  /\ scanRoot = FsTop
  /\ maxDepth = MaxDepthArg
  /\ maxFiles \in {ProgressBatch, MaxBatchFiles}
  /\ stack = <<Frame(scanRoot, 0)>>
  /\ fileList = <<>>
  /\ scanStatus = "running"
  /\ listed = <<>>
  /\ progress = <<>>

InitProgress == InitScan \/ InitBatch

SpecProgress == InitProgress /\ [][NextScan]_vars

IsDirectoryReport(entry) == entry.kind = "directory"

IsFileReport(entry) == entry.kind = "file"

\* the file at position i of the accumulator lies directly in the root
InRoot(i) == Parent(fileList[i]) = scanRoot

\* the positions of the accumulator the claim expects a report for
ReportedPositions ==
  SelectSeq([i \in 1..Len(fileList) |-> i], LAMBDA i : InRoot(i) \/ i % 5 = 0)

ExpectedFileReports ==
  [k \in 1..Len(ReportedPositions) |->
     [kind |-> "file", path |-> fileList[ReportedPositions[k]],
      count |-> ReportedPositions[k]]]

\* the reports for files are exactly those of the files of the root and of
\* every fifth file, each with its path and the length of the accumulator,
\* and the root is reported at most once, first, with an empty accumulator
FileReportsInBatches ==
  /\ SelectSeq(progress, IsFileReport) = ExpectedFileReports
  /\ SelectSeq(progress, IsDirectoryReport)
       \in {<<>>, <<[kind |-> "directory", path |-> scanRoot, count |-> 0]>>}
  /\ progress # <<>> => IsDirectoryReport(progress[1])

\* the call returned at line 123 without listing the root
ReturnedAtOnce == StopAtDepth(0) \/ maxFiles <= 0

\* C22 as claimed: every top-level call reports its root once, every file of
\* the root once, and a file below the root exactly when the count after
\* adding it is a multiple of 5.
C22_RootReportedByEveryCall ==
  /\ FileReportsInBatches
  /\ Returned => Len(SelectSeq(progress, IsDirectoryReport)) = 1

\* C22: a top-level call that does not return at once (maxDepth > 0 and
\* maxFiles > 0) reports its root once, before anything else; a call that
\* returns at once reports nothing.  Every file of the root is reported
\* once, and a file below the root exactly when the count after adding it is
\* a multiple of 5, each with its path and the length of the accumulator.
C22_ProgressCadence ==
  /\ FileReportsInBatches
  /\ Returned =>
       Len(SelectSeq(progress, IsDirectoryReport)) = (IF ReturnedAtOnce THEN 0 ELSE 1)
  /\ (Returned /\ ReturnedAtOnce) => progress = <<>>

\* seven files were found; the fifth lies below the root and was reported
\* with count 5, a file of the root was reported with count 6 or 7, and the
\* four files found below the root before the fifth were not reported
C22_Witness ==
  /\ Returned
  /\ Len(fileList) = 7
  /\ ~InRoot(5)
  /\ \E k \in 1..Len(progress) :
       progress[k] = [kind |-> "file", path |-> fileList[5], count |-> 5]
  /\ \E k \in 1..Len(progress) : progress[k].kind = "file" /\ progress[k].count > 5
  /\ \A i \in 1..4 : ~InRoot(i)
  /\ Len(progress) = 4

-----------------------------------------------------------------------------
(* The counts given to the progress callback by scanCommonDirectories *)

\* C23 as claimed: the count given to the callback is the running total of
\* the whole scanCommonDirectories call: over the invocations of the callback
\* it never decreases, and it never exceeds the length of the list finally
\* returned.
C23_CountIsRunningTotal ==
  /\ \A k \in 1..(Len(progress) - 1) : progress[k].count <= progress[k + 1].count
  /\ (CommonDone /\ outcome = "returned") =>
       \A k \in 1..Len(progress) : progress[k].count <= Len(allFiles)

-----------------------------------------------------------------------------
(* The end of a game *)

\* the game ended by a correct guess (lines 118-119) or by the last guess
\* (lines 129, 152)
GameEnded ==
  /\ ~gameState.gameActive
  /\ gameState.guessesRemaining <= 0

\* initializeGame starts a new game in this step (lines 38-42)
NewGameInitialized ==
  /\ InitializeGameResumes
  /\ Head(fromMain).result.success

\* C24 as claimed: from the end of a game until a new game is initialized no
\* step changes guessesRemaining, previousGuess or the guess history, not
\* even the arrival of a check-guess reply awaited since before the end, and
\* the win and the lose message are never shown together.
C24_EndedGameIsFrozen ==
  [][/\ (GameEnded /\ ~NewGameInitialized) =>
          /\ gameState'.guessesRemaining = gameState.guessesRemaining
          /\ gameState'.previousGuess = gameState.previousGuess
          /\ gameState'.guesses = gameState.guesses
     /\ ~(ui'.win /\ ui'.lose)]_vars

-----------------------------------------------------------------------------
(* The order compareGuesses puts on the guesses of one target *)

\* the rank of a guess: the guesses of the target's folder come first, and
\* within a method the smaller magnitude comes first
Rank(p, t) ==
  IF SameFolder(p, t) THEN [method |-> 0, magnitude |-> AlphaMagnitude(p, t)]
  ELSE [method |-> 1, magnitude |-> DepthMagnitude(p, t)]

RanksBefore(a, b, t) ==
  \/ Rank(a, t).method < Rank(b, t).method
  \/ Rank(a, t).method = Rank(b, t).method /\ Rank(a, t).magnitude < Rank(b, t).magnitude

VerdictOfRanks(a, b, t) ==
  IF RanksBefore(a, b, t) THEN "closer"
  ELSE IF RanksBefore(b, a, t) THEN "farther"
  ELSE "same"

\* the verdict with the two guesses exchanged
Exchanged(verdict) ==
  CASE verdict = "closer" -> "farther"
    [] verdict = "farther" -> "closer"
    [] OTHER -> verdict

\* C25: for a given previous guess the verdict is 'closer', 'same' or
\* 'farther' exactly as the new guess ranks before, equal to or after the
\* previous one by (method, magnitude), alphabetical first; exchanging the
\* two guesses exchanges 'closer' and 'farther' and keeps 'same'; 'closer'
\* is transitive over any third guess.
C25_VerdictsFollowOneOrder ==
  (Compared /\ PreviousGiven) =>
    /\ comparison = VerdictOfRanks(newGuessPath, previousGuessPath, targetPath)
    /\ newGuessPath # <<>> =>
         compareGuesses(previousGuessPath, newGuessPath, targetPath) = Exchanged(comparison)
    /\ \A third \in GuessPaths \ {<<>>} :
         (/\ comparison = "closer"
          /\ compareGuesses(previousGuessPath, third, targetPath) = "closer")
           => compareGuesses(newGuessPath, third, targetPath) = "closer"

\* a guess in the target's folder is closer than a guess elsewhere although
\* its magnitude is the larger one, and that guess is closer than a third
\* one of its own method
C25_Witness ==
  /\ Compared
  /\ PreviousGiven
  /\ comparison = "closer"
  /\ Rank(newGuessPath, targetPath).method = 0
  /\ Rank(previousGuessPath, targetPath).method = 1
  /\ Rank(newGuessPath, targetPath).magnitude > Rank(previousGuessPath, targetPath).magnitude
  /\ \E third \in GuessPaths \ {<<>>} :
       compareGuesses(previousGuessPath, third, targetPath) = "closer"

-----------------------------------------------------------------------------
(* The messages of one initialize-game invocation *)

\* the main process runs on: a directory listing that was started completes,
\* the scan goes on to its end, and the handler that awaits it resumes
SpecMainFair ==
  SpecMain /\ WF_vars(ScanStep \/ CommonStep) /\ WF_vars(MainInitializeGameFinish)

\* the messages and replies the main process sends in this step
SentInStep ==
  IF Len(fromMain') > Len(fromMain)
    THEN SubSeq(fromMain', Len(fromMain) + 1, Len(fromMain'))
  ELSE <<>>

IsScanningStarted(message) == message.channel = "scanning-started"

IsScanningComplete(message) == message.channel = "scanning-complete"

\* an initialize-game invocation has sent scanning-started and not returned
InitializeGamePending == handler.channel = "initialize-game"

\* scanning-started is sent exactly by the step in which an invocation starts
StartedWithInvocation ==
  (Len(SelectSeq(SentInStep, IsScanningStarted)) > 0
     \/ (~InitializeGamePending /\ InitializeGamePending'))
  => (/\ ~InitializeGamePending
      /\ InitializeGamePending'
      /\ SentInStep = <<Event("scanning-started", 0)>>)

\* scanning-complete is sent only by the step in which the invocation returns
CompleteOnlyOnReturn ==
  Len(SelectSeq(SentInStep, IsScanningComplete)) > 0
  => (InitializeGamePending /\ ~InitializeGamePending')

\* the returning step sends one scanning-complete, then the result
ReturnSendsCompleteAndResult ==
  (InitializeGamePending /\ ~InitializeGamePending')
  => (/\ Len(SentInStep) = 2
      /\ IsScanningComplete(SentInStep[1])
      /\ SentInStep[2] = ReplyTo(handler, SentInStep[2].result)
      /\ IF SentInStep[2].result.success
           THEN /\ SentInStep[1].result.fileCount = Len(mainFileList')
                /\ SentInStep[2].result.fileCount = Len(mainFileList')
                /\ Len(mainFileList') > 0
         ELSE /\ SentInStep[1].result.fileCount = 0
              /\ SentInStep[2].result.error # "none")

\* C26: scanning-started is sent exactly when an initialize-game invocation
\* starts; while the invocation is pending no scanning-complete is sent
\* until the step in which it returns, which sends one scanning-complete,
\* with the length of the list on success and with 0 on failure, followed by
\* the result; scanning-complete is sent by no other step; and every
\* pending invocation eventually returns.
C26_StartedThenCompleteOnce ==
  /\ [][StartedWithInvocation /\ CompleteOnlyOnReturn /\ ReturnSendsCompleteAndResult]_vars
  /\ (InitializeGamePending ~> ~InitializeGamePending)

\* an invocation found two files: scanning-complete with fileCount 2 and
\* the successful result are on their way to the renderer
C26_Witness ==
  /\ ~InitializeGamePending
  /\ Len(fromMain) = 2
  /\ fromMain[1] = Event("scanning-complete", 2)
  /\ fromMain[2].channel = "initialize-game"
  /\ fromMain[2].result.success
  /\ Len(mainFileList) = 2

====
